---------------------------- MODULE Spec2Model ----------------------------
(***************************************************************************)
(* A model of scpfoundation-explorer: the scrape-parse-cache pipeline      *)
(* (parsing.rs, caching.rs), the list state (stateful.rs) and the          *)
(* loader / relay / foreground tasks of main.rs.                           *)
(*                                                                         *)
(* Conventions: Option<T> is a sequence of length 0 (None) or 1 (Some);    *)
(* a Rust String is the sequence of its Unicode code points; a file's      *)
(* content is a sequence of bytes (0..255).                                *)
(***************************************************************************)
EXTENDS Integers, Sequences, FiniteSets, TLC

None == <<>>

Some(x) == <<x>>

IsSome(o) == Len(o) = 1

Unwrap(o) == o[1]

(***************************************************************************)
(* Bounds of the model.                                                    *)
(***************************************************************************)
\* longest query typed into the search box
MaxSearch == 1

\* largest scroll offset reached in the explorer pane
MaxScroll == 1

\* longest record sequence handed to cache_objects by a direct call
MaxSaveLen == 2

\* number of library calls made one after the other in SpecPipeline
MaxCalls == 2

\* how far past the end of the list, or below usize::MAX, a stray list index
\* is followed
MaxStray == 2

(***************************************************************************)
(* Strings.                                                                *)
(***************************************************************************)
RECURSIVE Flatten(_)
Flatten(ss) == IF ss = <<>> THEN <<>> ELSE Head(ss) \o Flatten(Tail(ss))

\* str::starts_with
StartsWith(s, p) == Len(p) <= Len(s) /\ SubSeq(s, 1, Len(p)) = p

\* char::is_whitespace, for the code points the model's texts use
WhiteSpace == {9, 10, 11, 12, 13, 32, 133, 160}

RECURSIVE TrimStart(_)
TrimStart(s) ==
  IF s # <<>> /\ Head(s) \in WhiteSpace THEN TrimStart(Tail(s)) ELSE s

RECURSIVE TrimEnd(_)
TrimEnd(s) ==
  IF s # <<>> /\ s[Len(s)] \in WhiteSpace
    THEN TrimEnd(SubSeq(s, 1, Len(s) - 1))
    ELSE s

\* str::trim
Trim(s) == TrimEnd(TrimStart(s))

\* str::strip_prefix: Some(rest) or None
StripPrefix(s, p) ==
  IF StartsWith(s, p) THEN Some(SubSeq(s, Len(p) + 1, Len(s))) ELSE None

\* str::split on a one-character separator: the pieces, in order
RECURSIVE SplitAcc(_, _, _)
SplitAcc(s, sep, cur) ==
  IF s = <<>> THEN <<cur>>
  ELSE IF Head(s) = sep THEN <<cur>> \o SplitAcc(Tail(s), sep, <<>>)
  ELSE SplitAcc(Tail(s), sep, Append(cur, Head(s)))

Split(s, sep) == SplitAcc(s, sep, <<>>)

\* char::to_lowercase for Basic Latin and the Cyrillic block
LowerChar(c) ==
  IF c >= 65 /\ c <= 90 THEN c + 32
  ELSE IF c >= 1040 /\ c <= 1071 THEN c + 32
  ELSE IF c >= 1024 /\ c <= 1039 THEN c + 80
  ELSE c

\* variant: the string is compared as it is typed
ToLowercase_AsTyped(s) == s

\* str::to_lowercase
ToLowercase(s) == [k \in 1..Len(s) |-> LowerChar(s[k])]

\* str::contains
Contains(hay, needle) ==
  \E k \in 0..(Len(hay) - Len(needle)) :
    SubSeq(hay, k + 1, k + Len(needle)) = needle

(***************************************************************************)
(* Records.                                                                *)
(***************************************************************************)
\* the variants of ClassificationScp in declaration order (variant index + 1)
ClassificationScp ==
  <<"None", "Safe", "Euclid", "Keter", "Thaumiel", "Neutralized", "NonStandard">>

\* ScpObject::new(class, name, id)
ScpObject(class, name, id) == [class |-> class, name |-> name, id |-> id]

\* "SCP-"
DocPrefix == <<83, 67, 80, 45>>

\* variant: the document name is built from the display name
get_document_name_FromName(o) == DocPrefix \o o.name

\* ScpObject::get_document_name
get_document_name(o) == DocPrefix \o o.id

\* ScpObject::get_name
get_name(o) == o.name

\* ScpObject::get_id
get_id(o) == o.id

(***************************************************************************)
(* The cache blob: bincode's default encoding of Vec<ScpObject>            *)
(* (serialize_into / deserialize_from): little-endian fixed-width          *)
(* integers, a u64 length before a sequence or a string, a u32 variant     *)
(* index for an enum, a string as its UTF-8 bytes, a struct as its fields  *)
(* in declaration order (class, name, id).                                 *)
(***************************************************************************)
\* an unsigned integer as `width` little-endian bytes
RECURSIVE ToLE(_, _)
ToLE(n, width) ==
  IF width = 0 THEN <<>> ELSE <<n % 256>> \o ToLE(n \div 256, width - 1)

\* what FromLE gives for every value of 2^24 or more: the integers of the model
\* have 32 bits, and such a value is only ever compared with a file length or
\* a variant count, all far below it
Saturated == 256 * 256 * 256

\* little-endian bytes as an unsigned integer, saturating at 2^24
FromLE(bytes) ==
  IF \E k \in 4..Len(bytes) : bytes[k] # 0 THEN Saturated
  ELSE LET at(k) == IF k <= Len(bytes) THEN bytes[k] ELSE 0
       IN  at(1) + 256 * at(2) + 65536 * at(3)

\* the UTF-8 bytes of one code point
Utf8Char(c) ==
  IF c < 128 THEN <<c>>
  ELSE IF c < 2048 THEN <<192 + (c \div 64), 128 + (c % 64)>>
  ELSE IF c < 65536
    THEN <<224 + (c \div 4096), 128 + ((c \div 64) % 64), 128 + (c % 64)>>
  ELSE <<240 + (c \div 262144), 128 + ((c \div 4096) % 64),
         128 + ((c \div 64) % 64), 128 + (c % 64)>>

\* String::as_bytes
Utf8Bytes(s) == Flatten([k \in 1..Len(s) |-> Utf8Char(s[k])])

\* the number of bytes a UTF-8 sequence starting with byte b takes; 0: no start
Utf8Width(b) ==
  IF b < 128 THEN 1
  ELSE IF b >= 194 /\ b <= 223 THEN 2
  ELSE IF b >= 224 /\ b <= 239 THEN 3
  ELSE IF b >= 240 /\ b <= 244 THEN 4
  ELSE 0

IsContinuation(b) == b >= 128 /\ b <= 191

\* the code point of one well-formed UTF-8 sequence of w bytes
Utf8Value(bs, w) ==
  IF w = 1 THEN bs[1]
  ELSE IF w = 2 THEN (bs[1] - 192) * 64 + (bs[2] - 128)
  ELSE IF w = 3
    THEN (bs[1] - 224) * 4096 + (bs[2] - 128) * 64 + (bs[3] - 128)
  ELSE (bs[1] - 240) * 262144 + (bs[2] - 128) * 4096
         + (bs[3] - 128) * 64 + (bs[4] - 128)

\* the smallest code point that needs w bytes (a smaller one is overlong)
Utf8Min(w) == IF w = 1 THEN 0 ELSE IF w = 2 THEN 128
              ELSE IF w = 3 THEN 2048 ELSE 65536

\* String::from_utf8: [ok, val]
RECURSIVE FromUtf8(_, _)
FromUtf8(bytes, acc) ==
  IF bytes = <<>> THEN [ok |-> TRUE, val |-> acc]
  ELSE
    LET w == Utf8Width(Head(bytes)) IN
    IF w = 0 \/ w > Len(bytes) THEN [ok |-> FALSE, val |-> <<>>]
    ELSE IF \E k \in 2..w : ~IsContinuation(bytes[k])
      THEN [ok |-> FALSE, val |-> <<>>]
    ELSE
      LET c == Utf8Value(bytes, w) IN
      IF c < Utf8Min(w) \/ (c >= 55296 /\ c <= 57343) \/ c > 1114111
        THEN [ok |-> FALSE, val |-> <<>>]
        ELSE FromUtf8(SubSeq(bytes, w + 1, Len(bytes)), Append(acc, c))

\* the index of a variant in ClassificationScp, from 0
VariantIndex(class) ==
  (CHOOSE k \in 1..Len(ClassificationScp) : ClassificationScp[k] = class) - 1

SerializeString(s) == ToLE(Len(Utf8Bytes(s)), 8) \o Utf8Bytes(s)

\* variant: the id written before the name
SerializeObject_IdFirst(o) ==
  ToLE(VariantIndex(o.class), 4) \o SerializeString(o.id)
    \o SerializeString(o.name)

\* Serialize for ScpObject (derived): the fields in declaration order
SerializeObject(o) ==
  ToLE(VariantIndex(o.class), 4) \o SerializeString(o.name)
    \o SerializeString(o.id)

\* serialize_into(&mut f, &objects)
Serialize(objects) ==
  ToLE(Len(objects), 8)
    \o Flatten([k \in 1..Len(objects) |-> SerializeObject(objects[k])])

\* a failed read
Fail == [ok |-> FALSE, val |-> <<>>, next |-> 0]

\* read a little-endian integer of `width` bytes at position p
ReadInt(b, p, width) ==
  IF p + width - 1 <= Len(b)
    THEN [ok |-> TRUE, val |-> FromLE(SubSeq(b, p, p + width - 1)),
          next |-> p + width]
    ELSE Fail

\* the String of n bytes decoded as `s`, the read ending before `next`
StringRead(s, next) ==
  IF s.ok THEN [ok |-> TRUE, val |-> s.val, next |-> next] ELSE Fail

\* read a String at position p
ReadString(b, p) ==
  LET n == ReadInt(b, p, 8) IN
  IF ~n.ok \/ n.val > Len(b) - n.next + 1 THEN Fail
  ELSE StringRead(FromUtf8(SubSeq(b, n.next, n.next + n.val - 1), <<>>),
                  n.next + n.val)

\* the object of variant index v and the fields read as `name` and `id`
ObjectRead(v, name, id) ==
  IF ~id.ok THEN Fail
  ELSE [ok |-> TRUE,
        val |-> ScpObject(ClassificationScp[v + 1], name.val, id.val),
        next |-> id.next]

\* the field id, read after the field name
ReadId(b, v, name) ==
  IF ~name.ok THEN Fail ELSE ObjectRead(v, name, ReadString(b, name.next))

\* Deserialize for ScpObject (derived) at position p
ReadObject(b, p) ==
  LET v == ReadInt(b, p, 4) IN
  IF ~v.ok \/ v.val >= Len(ClassificationScp) THEN Fail
  ELSE ReadId(b, v.val, ReadString(b, v.next))

RECURSIVE ReadObjects(_, _, _, _)
\* the rest of the sequence after the object read as `o`
ReadRest(b, n, acc, o) ==
  IF o.ok THEN ReadObjects(b, o.next, n - 1, Append(acc, o.val)) ELSE Fail

\* read n objects from position p on
ReadObjects(b, p, n, acc) ==
  IF n = 0 THEN [ok |-> TRUE, val |-> acc, next |-> p]
  ELSE ReadRest(b, n, acc, ReadObject(b, p))

\* a read's outcome without its position
Outcome(r) == [ok |-> r.ok, val |-> r.val]

\* deserialize_from(f): [ok, val]; bytes after the last object are not read
Deserialize(b) ==
  LET n == ReadInt(b, 1, 8) IN
  IF ~n.ok THEN [ok |-> FALSE, val |-> <<>>]
  ELSE Outcome(ReadObjects(b, n.next, n.val, <<>>))

(***************************************************************************)
(* Listing pages.  A page is the sequence of the paragraphs selected by    *)
(* "#page-content>p"; a paragraph is the sequence of its child nodes; a    *)
(* node is a text node or an element with a name, an optional alt          *)
(* attribute and child nodes.                                              *)
(***************************************************************************)
Txt(s) ==
  [kind |-> "text", name |-> "", alt |-> None, text |-> s, children |-> <<>>]

Elem(name, alt, children) ==
  [kind |-> "element", name |-> name, alt |-> alt, text |-> <<>>,
   children |-> children]

\* the range 1..101 the paragraphs are zipped with holds 100 numbers
ZipLimit == 101 - 1

\* next_sibling / prev_sibling: the node at position k of paragraph p, if any
Sibling(p, k) == IF k \in 1..Len(p) THEN Some(p[k]) ELSE None

\* "SCP"
ScpPrefix == <<83, 67, 80>>

\* "—"
EmDash == <<8212>>

\* "NOT FOUND"
NotFound == <<78, 79, 84, 32, 70, 79, 85, 78, 68>>

\* the filter of i.children(): an element named "a" whose first child is a text
\* starting with "SCP"
IsScpAnchor(c) ==
  /\ c.kind = "element"
  /\ c.name = "a"
  /\ c.children[1].kind = "text"
  /\ StartsWith(c.children[1].text, ScpPrefix)

\* the filter unwraps the first child of every element named "a"
FilterPanics(c) == c.kind = "element" /\ c.name = "a" /\ c.children = <<>>

\* variant: the arm of keter.png gives the classification of the arm above it
ClassOfAlt_ArmSlip(this) ==
  IF this = None THEN "None"
  ELSE IF Unwrap(this) = "na.png" THEN "Neutralized"
  ELSE IF Unwrap(this) = "safe.png" THEN "Safe"
  ELSE IF Unwrap(this) = "euclid.png" THEN "Euclid"
  ELSE IF Unwrap(this) = "keter.png" THEN "Euclid"
  ELSE IF Unwrap(this) = "thaumiel.png" THEN "Thaumiel"
  ELSE IF Unwrap(this) = "nonstandard.png" THEN "NonStandard"
  ELSE "None"

\* match on the alt attribute of the element two siblings back
ClassOfAlt(this) ==
  IF this = None THEN "None"
  ELSE IF Unwrap(this) = "na.png" THEN "Neutralized"
  ELSE IF Unwrap(this) = "safe.png" THEN "Safe"
  ELSE IF Unwrap(this) = "euclid.png" THEN "Euclid"
  ELSE IF Unwrap(this) = "keter.png" THEN "Keter"
  ELSE IF Unwrap(this) = "thaumiel.png" THEN "Thaumiel"
  ELSE IF Unwrap(this) = "nonstandard.png" THEN "NonStandard"
  ELSE "None"

\* the name taken from the node two after the anchor, when it is a span element
\* whose first child is a text
SpanName(span) ==
  IF /\ span # None
     /\ Unwrap(span).kind = "element"
     /\ Unwrap(span).name = "span"
     /\ Unwrap(span).children # <<>>
     /\ Unwrap(span).children[1].kind = "text"
    THEN Some(Trim(Unwrap(span).children[1].text))
    ELSE None

\* variant: what is left after the em-dash is not trimmed again
TextName_Untrimmed(next) ==
  LET stripped == StripPrefix(Trim(next.text), EmDash)
  IN  IF stripped = None THEN NotFound ELSE Unwrap(stripped)

\* variant: a text without the em-dash is taken as the name
TextName_NoSentinel(next) ==
  LET stripped == StripPrefix(Trim(next.text), EmDash)
  IN  Trim(IF stripped = None THEN Trim(next.text) ELSE Unwrap(stripped))

\* the name taken from the text node directly after the anchor
TextName(next) ==
  LET stripped == StripPrefix(Trim(next.text), EmDash)
  IN  Trim(IF stripped = None THEN NotFound ELSE Unwrap(stripped))

\* the closure run on the anchor at position k of paragraph p:
\* [panic, objs], objs the records pushed (none or one)
ParseAnchor(p, k) ==
  LET Panic   == [panic |-> TRUE, objs |-> <<>>]
      name_d  == Split(p[k].children[1].text, 45)
      next    == Sibling(p, k + 1)
      prev    == Sibling(p, k - 1)
      prev2   == Sibling(p, k - 2)
  IN
  IF Len(name_d) < 2 \/ next = None THEN Panic
  ELSE IF ~(\/ Unwrap(next).kind = "text"
            \/ Unwrap(next).kind = "element" /\ Unwrap(next).name = "span")
    THEN [panic |-> FALSE, objs |-> <<>>]
  ELSE
    LET fromSpan == SpanName(Sibling(p, k + 2)) IN
    IF fromSpan = None /\ Unwrap(next).kind # "text" THEN Panic
    ELSE IF prev = None \/ prev2 = None THEN Panic
    ELSE IF Unwrap(prev2).kind # "element" THEN Panic
    ELSE
      [panic |-> FALSE,
       objs  |-> <<ScpObject(ClassOfAlt(Unwrap(prev2).alt),
                             IF fromSpan = None THEN TextName(Unwrap(next))
                                                ELSE Unwrap(fromSpan),
                             Trim(name_d[2]))>>]

\* for_each over closures that push to `objects`: a panic of any of them is a
\* panic of the whole, and the records pushed follow one another
InOrder(per) ==
  [panic |-> \E k \in 1..Len(per) : per[k].panic,
   objs  |-> Flatten([k \in 1..Len(per) |-> per[k].objs])]

\* the closure run on one paragraph: [panic, objs]
ParseParagraph(p) ==
  IF \E k \in 1..Len(p) : FilterPanics(p[k])
    THEN [panic |-> TRUE, objs |-> <<>>]
  ELSE InOrder([k \in 1..Len(p) |->
                  IF IsScpAnchor(p[k]) THEN ParseAnchor(p, k)
                  ELSE [panic |-> FALSE, objs |-> <<>>]])

\* parse_series from the parsed document on: [panic, objs]
ParseDocument(page) ==
  InOrder([j \in 1..(IF Len(page) < ZipLimit THEN Len(page) ELSE ZipLimit) |->
             ParseParagraph(page[j])])

(***************************************************************************)
(* The remote site and the cache file the model runs against.              *)
(***************************************************************************)
MAX_SERIES == 9

URL_SERIES == "https://scpfoundation.net/scp-series"

URL_SCP_OBJECT_PAGE == "https://scpfoundation.net/api/articles/scp-"

\* the decimal digits of a natural number, as format!("{}", i) writes them
RECURSIVE Decimal(_)
Decimal(n) ==
  IF n < 10 THEN <<48 + n>> ELSE Decimal(n \div 10) \o <<48 + (n % 10)>>

\* the URL parse_all passes to parse_series for series i: URL_SERIES for the
\* first, format!("{}-{}", URL_SERIES, i) for the others
SeriesUrl(i) ==
  [base |-> URL_SERIES, rest |-> IF i = 1 THEN <<>> ELSE <<45>> \o Decimal(i)]

Img(alt) == Elem("img", Some(alt), <<>>)

Anchor(text) == Elem("a", None, <<Txt(text)>>)

\* series 1: two records, the first named by the text after the anchor, the
\* second by a span
PageOne ==
  << << Img("euclid.png"), Txt(<<32>>), Anchor(<<83, 67, 80, 45, 48, 48, 50>>),
        Txt(<<32, 8212, 32, 65, 98>>), Elem("br", None, <<>>),
        Img("safe.png"), Txt(<<32>>), Anchor(<<83, 67, 80, 45, 48, 48, 51>>),
        Txt(<<32>>), Elem("span", None, <<Txt(<<32, 98, 32>>)>>) >> >>

\* series 3: a paragraph without anchors, then a record whose identifier repeats
\* one of series 1 and whose text has no em-dash
PageThree ==
  << << Txt(<<120>>), Elem("a", None, <<Txt(<<72, 117, 98>>)>>) >>,
     << Img("weird.png"), Txt(<<32>>), Anchor(<<83, 67, 80, 45, 48, 48, 50>>),
        Txt(<<32, 65, 98>>) >> >>

\* series 8: an image without alt, a padded identifier, an empty name
PageEight ==
  << << Elem("img", None, <<>>), Txt(<<32>>),
        Anchor(<<83, 67, 80, 45, 56, 32>>), Txt(<<8212>>) >> >>

\* a page whose anchor is the last node of its paragraph
PageBroken ==
  << << Img("keter.png"), Txt(<<32>>), Anchor(<<83, 67, 80, 45, 53>>) >> >>

SeriesUrls == {SeriesUrl(i) : i \in 1..(MAX_SERIES - 1)}

SiteGood ==
  [u \in SeriesUrls |->
     IF u = SeriesUrl(1) THEN PageOne
     ELSE IF u = SeriesUrl(3) THEN PageThree
     ELSE IF u = SeriesUrl(8) THEN PageEight
     ELSE <<>>]

SiteBroken == [SiteGood EXCEPT ![SeriesUrl(5)] = PageBroken]

Sites == {SiteGood, SiteBroken}

\* a cache file: absent, present but not to be opened (neither for reading nor
\* for writing), or a regular file with its bytes
NoFile == [kind |-> "absent", bytes |-> <<>>]

LockedFile == [kind |-> "locked", bytes |-> <<>>]

RegularFile(bytes) == [kind |-> "file", bytes |-> bytes]

\* record sequences found in the cache at start
CachedObjects ==
  << ScpObject("Keter", <<83, 99>>, <<49, 55, 51>>),
     ScpObject("Safe", <<1046>>, <<50>>) >>

\* blobs that do not decode: cut short, and with a variant index out of range
CorruptBlobs ==
  { SubSeq(Serialize(CachedObjects), 1, Len(Serialize(CachedObjects)) - 1),
    ToLE(1, 8) \o ToLE(7, 4) \o SerializeString(<<65>>)
      \o SerializeString(<<66>>) }

\* the arguments of direct calls of cache_objects
SampleObjects ==
  { ScpObject("None", <<>>, <<56>>),
    ScpObject("Thaumiel", <<8212, 1046>>, <<48, 48, 50>>) }

RECURSIVE SeqsUpTo(_, _)
SeqsUpTo(S, n) ==
  IF n = 0 THEN {<<>>}
  ELSE LET shorter == SeqsUpTo(S, n - 1)
       IN  shorter \cup {Append(q, x) : q \in shorter, x \in S}

SaveInputs == SeqsUpTo(SampleObjects, MaxSaveLen)

(***************************************************************************)
(* caching.rs                                                              *)
(***************************************************************************)
\* cache_objects(objects) on file f: [panic, file]
cache_objects(f, objects) ==
  IF f.kind = "locked" THEN [panic |-> TRUE, file |-> f]
  ELSE [panic |-> FALSE, file |-> RegularFile(Serialize(objects))]

\* variant: a blob that does not decode counts as a miss
Unwrapped_AsMiss(d) ==
  IF d.ok THEN [tag |-> "Ok", val |-> d.val]
  ELSE [tag |-> "Err", val |-> <<>>]

\* deserialize_from(f).unwrap()
Unwrapped(d) ==
  IF d.ok THEN [tag |-> "Ok", val |-> d.val]
  ELSE [tag |-> "Panic", val |-> <<>>]

\* variant: the cache is never read
decache_objects_Never(f) == [tag |-> "Err", val |-> <<>>]

\* decache_objects() on file f: Ok(objects), Err(FileCacheNotExists) or a panic
decache_objects(f) ==
  IF f.kind = "file" THEN Unwrapped(Deserialize(f.bytes))
  ELSE [tag |-> "Err", val |-> <<>>]

(***************************************************************************)
(* stateful.rs.  A StatefulList is [state, items, selected]: state is      *)
(* ListState's selected index (an Option), selected the list's own field.  *)
(* Indices count from 0 as in the source.  A usize of 2^63 or more is      *)
(* written as the negative number v - 2^64 (usize::MAX is -1).             *)
(***************************************************************************)
\* StatefulList::new
StatefulList_new == [state |-> None, items |-> <<>>, selected |-> 0]

\* StatefulList::with_items
with_items(items) == [state |-> None, items |-> items, selected |-> 0]

\* StatefulList::get_selected_id
get_selected_id(l) == l.selected

\* StatefulList::unselect
unselect(l) == [l EXCEPT !.state = None]

\* StatefulList::select_first
select_first(l) ==
  IF Len(l.items) > 0 THEN [l EXCEPT !.selected = 0, !.state = Some(0)] ELSE l

\* StatefulList::select_last
select_last(l) ==
  IF Len(l.items) > 0
    THEN [l EXCEPT !.selected = Len(l.items) - 1,
                   !.state = Some(Len(l.items) - 1)]
    ELSE l

\* a >= b on usize
UGe(a, b) == IF (a < 0) = (b < 0) THEN a >= b ELSE a < 0

\* self.items.len() - 1 leaves the range of usize
Underflows(l) == Len(l.items) = 0

\* StatefulList::next evaluates items.len() - 1 on an empty list
next_overflows(l) == l.state # None /\ Underflows(l)

\* variant: the highlight stays on the last item
next_Clamped(l) ==
  LET i == IF l.state = None THEN 0
           ELSE IF UGe(Unwrap(l.state), Len(l.items) - 1) THEN Unwrap(l.state)
           ELSE Unwrap(l.state) + 1
  IN  [l EXCEPT !.selected = i, !.state = Some(i)]

\* StatefulList::next, the subtraction wrapping when it overflows
next(l) ==
  LET i == IF l.state = None THEN 0
           ELSE IF UGe(Unwrap(l.state), Len(l.items) - 1) THEN 0
           ELSE Unwrap(l.state) + 1
  IN  [l EXCEPT !.selected = i, !.state = Some(i)]

\* StatefulList::previous evaluates items.len() - 1 on an empty list
previous_overflows(l) == l.state = Some(0) /\ Underflows(l)

\* StatefulList::previous, the subtraction wrapping when it overflows
previous(l) ==
  LET i == IF l.state = None THEN 0
           ELSE IF Unwrap(l.state) = 0 THEN Len(l.items) - 1
           ELSE Unwrap(l.state) - 1
  IN  [l EXCEPT !.selected = i, !.state = Some(i)]

\* the list's index is in the list or within the followed distance of it
Followed(l) ==
  l.selected >= 0 - MaxStray /\ l.selected < Len(l.items) + MaxStray

\* Vec::get with a usize index
VecGet(items, i) == IF i >= 0 /\ i < Len(items) THEN Some(items[i + 1]) ELSE None

(***************************************************************************)
(* State.                                                                  *)
(***************************************************************************)
VARIABLES
  \* the environment
  cacheFile,        \* cache_o.data in the working directory
  site,             \* the listing page behind each series URL
  args,             \* the process arguments
  overflow_checks,  \* whether the build panics on integer overflow
  \* parse_all, one call at a time
  pa_pc,            \* idle, decache, fetch, cache, returned, panicked
  pa_objects,       \* its local `objects`
  pa_i,             \* the series to fetch next
  pa_ret,           \* the value of the last call that returned
  \* main and run_app
  fg_pc,            \* the foreground task's position
  app,              \* AppStates
  loader_pc,        \* the task spawned by main
  relay_pc,         \* the task spawned by run_app
  lockHolder,       \* who holds the Mutex around ObjectsLoading
  slot,             \* ObjectsLoading
  chan,             \* the messages in the mpsc channel
  txAlive,          \* the channel's sender exists
  rxClosed,         \* rx.close() was called
  detail,           \* the identifier of the detail fetch being awaited
  \* history variables
  stored,           \* the sequence last written to the cache file, if known
  fetchLog,         \* the requests of the current call of parse_all, each
                    \* with whether parse_series returned from it
  cacheOpens,       \* File::open calls on the cache file
  cacheCreates,     \* File::create calls on the cache file
  parseAllCalls,    \* calls of parse_all
  callStart,        \* the counters and the file when the current call began
  history,          \* the last two library calls that ended, with results
  calls,            \* direct library calls made so far (SpecPipeline)
  sent,             \* messages the relay task sent
  handoffs,         \* messages the foreground received
  inflight,         \* detail fetches started and not completed
  requested,        \* the identifier of the latest detail fetch started
  \* a function called on its own (SpecSeries, SpecCalls)
  given,            \* the function and the arguments of the last such call
  got               \* what the call gave

envVars == <<site, args, overflow_checks>>

callVars == <<given, got>>

\* what no step of the process or of the pipeline changes
fixedVars == <<envVars, callVars>>

paVars == <<pa_pc, pa_objects, pa_i, pa_ret>>

procVars ==
  <<fg_pc, app, loader_pc, relay_pc, lockHolder, slot, chan, txAlive,
    rxClosed, detail, sent, handoffs, inflight, requested>>

logVars ==
  <<stored, fetchLog, cacheOpens, cacheCreates, parseAllCalls, callStart,
    history, calls>>

vars == <<cacheFile, fixedVars, paVars, procVars, logVars>>

\* what the process finds: the cache file, the site, its arguments, its build
InitEnv ==
  /\ \/ cacheFile = NoFile /\ stored = None
     \/ cacheFile = LockedFile /\ stored = None
     \/ \E objects \in {<<>>, CachedObjects} :
          /\ cacheFile = RegularFile(Serialize(objects))
          /\ stored = Some(objects)
     \/ \E blob \in CorruptBlobs :
          cacheFile = RegularFile(blob) /\ stored = None
  /\ site \in Sites
  /\ args \in {<<>>, <<"debug">>}
  /\ overflow_checks \in BOOLEAN

\* the state main builds before it looks at the arguments
InitState ==
  /\ pa_pc = "idle"
  /\ pa_objects = <<>>
  /\ pa_i = 0
  /\ pa_ret = <<>>
  /\ fg_pc = "main"
  /\ app = [window |-> "Objects", search |-> <<>>, mode |-> "Default",
            is_load |-> TRUE, objects |-> None,
            objects_items |-> StatefulList_new, explorer |-> None,
            scroll |-> <<0, 0>>]
  /\ loader_pc = "unspawned"
  /\ relay_pc = "unspawned"
  /\ lockHolder = "free"
  /\ slot = [objects |-> None, objects_items |-> StatefulList_new]
  /\ chan = <<>>
  /\ txAlive = FALSE
  /\ rxClosed = FALSE
  /\ detail = None
  /\ fetchLog = <<>>
  /\ cacheOpens = 0
  /\ cacheCreates = 0
  /\ parseAllCalls = 0
  /\ callStart = [creates |-> 0, file |-> cacheFile, stored |-> stored]
  /\ history = <<>>
  /\ calls = 0
  /\ sent = 0
  /\ handoffs = 0
  /\ inflight = 0
  /\ requested = None
  /\ given = None
  /\ got = None

Init == InitEnv /\ InitState

(***************************************************************************)
(* parse_all, step by step.  The steps are the same whoever called it.     *)
(***************************************************************************)
\* the entry a call leaves in `history` when it ends: the call and its
\* argument, how it ended and with what value, the requests it made, the number
\* of File::create calls it made, the cache file before and after it, and the
\* sequence the file was known to store before it
Ended(op, arg, tag, val, log, creates, file) ==
  [op |-> op, arg |-> arg, tag |-> tag, val |-> val, fetched |-> log,
   created |-> creates - callStart.creates,
   before |-> callStart.file, after |-> file, known |-> callStart.stored]

\* the same for a call of cache_objects or decache_objects, which ends at once
EndedAtOnce(op, arg, tag, val, creates, file) ==
  [op |-> op, arg |-> arg, tag |-> tag, val |-> val, fetched |-> <<>>,
   created |-> creates, before |-> cacheFile, after |-> file,
   known |-> stored]

\* `history` keeps the last two entries
Remember(h, e) == IF Len(h) < 2 THEN Append(h, e) ELSE <<h[2], e>>

\* the entry of parse_all, as every caller makes it
EnterParseAll ==
  /\ pa_pc' = "decache"
  /\ pa_objects' = <<>>
  /\ pa_i' = 0
  /\ fetchLog' = <<>>
  /\ parseAllCalls' = parseAllCalls + 1
  /\ callStart' = [creates |-> cacheCreates, file |-> cacheFile,
                   stored |-> stored]
  /\ UNCHANGED pa_ret

\* parse_all after decache_objects() gave r
Decached(r) ==
  /\ pa_pc' = IF r.tag = "Ok" THEN "returned"
              ELSE IF r.tag = "Err" THEN "fetch" ELSE "panicked"
  /\ pa_ret' = IF r.tag = "Ok" THEN r.val ELSE pa_ret
  /\ pa_i' = IF r.tag = "Err" THEN 1 ELSE pa_i
  /\ history' =
       IF r.tag = "Err" THEN history
       ELSE Remember(history,
              Ended("parse_all", <<>>, r.tag, r.val, fetchLog,
                    cacheCreates, cacheFile))

\* match decache_objects() { Ok(o) => o, Err(_) => ... }
PA_Decache ==
  /\ pa_pc = "decache"
  /\ cacheOpens' = cacheOpens + 1
  /\ Decached(decache_objects(cacheFile))
  /\ UNCHANGED <<pa_objects, cacheFile, stored, fetchLog, cacheCreates,
                 parseAllCalls, callStart, calls>>

\* variant: a failed request is skipped and the loop goes on
Fetched_SkipsFailure(r, url) ==
  /\ fetchLog' = Append(fetchLog, [url |-> url, ok |-> ~r.panic])
  /\ pa_objects' = pa_objects \o r.objs
  /\ pa_i' = pa_i + 1
  /\ pa_pc' = IF pa_i + 1 < MAX_SERIES THEN "fetch" ELSE "cache"
  /\ UNCHANGED history

\* variant: the records of a series are put before those already fetched
Fetched_Prepends(r, url) ==
  /\ fetchLog' = Append(fetchLog, [url |-> url, ok |-> ~r.panic])
  /\ IF r.panic
       THEN /\ pa_pc' = "panicked"
            /\ history' =
                 Remember(history,
                   Ended("parse_all", <<>>, "Panic", <<>>,
                         Append(fetchLog, [url |-> url, ok |-> FALSE]),
                         cacheCreates, cacheFile))
            /\ UNCHANGED <<pa_objects, pa_i>>
       ELSE /\ pa_objects' = r.objs \o pa_objects
            /\ pa_i' = pa_i + 1
            /\ pa_pc' = IF pa_i + 1 < MAX_SERIES THEN "fetch" ELSE "cache"
            /\ UNCHANGED history

\* parse_all after parse_series(url) gave r
Fetched(r, url) ==
  /\ fetchLog' = Append(fetchLog, [url |-> url, ok |-> ~r.panic])
  /\ IF r.panic
       THEN /\ pa_pc' = "panicked"
            /\ history' =
                 Remember(history,
                   Ended("parse_all", <<>>, "Panic", <<>>,
                         Append(fetchLog, [url |-> url, ok |-> FALSE]),
                         cacheCreates, cacheFile))
            /\ UNCHANGED <<pa_objects, pa_i>>
       ELSE /\ pa_objects' = pa_objects \o r.objs
            /\ pa_i' = pa_i + 1
            /\ pa_pc' = IF pa_i + 1 < MAX_SERIES THEN "fetch" ELSE "cache"
            /\ UNCHANGED history

\* parse_series(url): the request fails, or answers with the page of the site
parse_series(url, answered) ==
  IF answered THEN ParseDocument(site[url])
  ELSE [panic |-> TRUE, objs |-> <<>>]

\* objects.append(&mut parse_series(url).await), for the first series and for
\* each i of 2..MAX_SERIES
PA_Fetch ==
  /\ pa_pc = "fetch"
  /\ \E answered \in BOOLEAN :
       Fetched(parse_series(SeriesUrl(pa_i), answered), SeriesUrl(pa_i))
  /\ UNCHANGED <<pa_ret, cacheFile, stored, cacheOpens, cacheCreates,
                 parseAllCalls, callStart, calls>>

\* parse_all after cache_objects(objects.clone()) gave w
Cached(w) ==
  /\ cacheFile' = w.file
  /\ stored' = IF w.panic THEN stored ELSE Some(pa_objects)
  /\ pa_pc' = IF w.panic THEN "panicked" ELSE "returned"
  /\ pa_ret' = IF w.panic THEN pa_ret ELSE pa_objects
  /\ history' =
       Remember(history,
         Ended("parse_all", <<>>, IF w.panic THEN "Panic" ELSE "Ok",
               IF w.panic THEN <<>> ELSE pa_objects, fetchLog,
               cacheCreates + 1, w.file))

\* cache_objects(objects.clone()); objects
PA_Cache ==
  /\ pa_pc = "cache"
  /\ cacheCreates' = cacheCreates + 1
  /\ Cached(cache_objects(cacheFile, pa_objects))
  /\ UNCHANGED <<pa_objects, pa_i, fetchLog, cacheOpens, parseAllCalls,
                 callStart, calls>>

(***************************************************************************)
(* The pipeline called directly, one call after the other: parse_all,      *)
(* cache_objects and decache_objects as a caller of the library sees them. *)
(***************************************************************************)
NoCallRunning == pa_pc \in {"idle", "returned", "panicked"}

CallParseAll ==
  /\ NoCallRunning
  /\ calls < MaxCalls
  /\ calls' = calls + 1
  /\ EnterParseAll
  /\ UNCHANGED <<cacheFile, stored, cacheOpens, cacheCreates, history,
                 fixedVars, procVars>>

PipelineStep ==
  /\ \/ PA_Decache
     \/ PA_Fetch
     \/ PA_Cache
  /\ UNCHANGED <<fixedVars, procVars>>

\* what a direct call cache_objects(objects) leaves, w being its outcome
Saved(objects, w) ==
  /\ cacheFile' = w.file
  /\ stored' = IF w.panic THEN stored ELSE Some(objects)
  /\ history' =
       Remember(history,
         EndedAtOnce("cache_objects", objects,
                     IF w.panic THEN "Panic" ELSE "Ok", <<>>, 1, w.file))

CallCacheObjects ==
  /\ NoCallRunning
  /\ calls < MaxCalls
  /\ calls' = calls + 1
  /\ cacheCreates' = cacheCreates + 1
  /\ \E objects \in SaveInputs :
       Saved(objects, cache_objects(cacheFile, objects))
  /\ UNCHANGED <<paVars, fetchLog, cacheOpens, parseAllCalls, callStart,
                 fixedVars, procVars>>

\* what a direct call decache_objects() leaves, r being its outcome
Loaded(r) ==
  history' =
    Remember(history,
      EndedAtOnce("decache_objects", <<>>, r.tag, r.val, 0, cacheFile))

CallDecacheObjects ==
  /\ NoCallRunning
  /\ calls < MaxCalls
  /\ calls' = calls + 1
  /\ cacheOpens' = cacheOpens + 1
  /\ Loaded(decache_objects(cacheFile))
  /\ UNCHANGED <<cacheFile, stored, paVars, fetchLog, cacheCreates,
                 parseAllCalls, callStart, fixedVars, procVars>>

NextPipeline ==
  \/ CallParseAll
  \/ PipelineStep
  \/ CallCacheObjects
  \/ CallDecacheObjects

\* the library calls read neither the arguments nor the build's overflow mode
InitPipeline == Init /\ args = <<>> /\ overflow_checks = FALSE

SpecPipeline == InitPipeline /\ [][NextPipeline]_vars

(***************************************************************************)
(* main.rs: main, the loader task, the relay task.                         *)
(***************************************************************************)
\* the process is alive: main has neither returned nor panicked
Running == fg_pc \notin {"exited", "crashed"}

\* the foreground task panics, which ends the process
Crash ==
  /\ fg_pc' = "crashed"
  /\ UNCHANGED <<app, loader_pc, relay_pc, lockHolder, slot, chan, txAlive,
                 rxClosed, detail, sent, handoffs, inflight, requested>>

\* if args.contains("debug") { parsing::debug().await; return Ok(()); }
MainDebug ==
  /\ fg_pc = "main"
  /\ \E k \in 1..Len(args) : args[k] = "debug"
  /\ fg_pc' = "exited"
  /\ UNCHANGED <<app, loader_pc, relay_pc, lockHolder, slot, chan, txAlive,
                 rxClosed, detail, sent, handoffs, inflight, requested>>
  /\ UNCHANGED <<cacheFile, fixedVars, paVars, logVars>>

\* tokio::spawn of the loader task, then the terminal is set up
MainSpawnLoader ==
  /\ fg_pc = "main"
  /\ ~\E k \in 1..Len(args) : args[k] = "debug"
  /\ loader_pc' = "lock"
  /\ fg_pc' = "setup"
  /\ UNCHANGED <<app, relay_pc, lockHolder, slot, chan, txAlive, rxClosed,
                 detail, sent, handoffs, inflight, requested>>
  /\ UNCHANGED <<cacheFile, fixedVars, paVars, logVars>>

\* variant: the loader drops the result and starts over
LoaderStore_Retries(objects) ==
  /\ slot' = slot
  /\ lockHolder' = "free"
  /\ loader_pc' = "lock"

\* the loader after parse_all returned: lock.objects = Some(..), then
\* lock.objects_items = with_items(lock.objects.clone().unwrap()), guard dropped
LoaderStore(objects) ==
  /\ slot' = [objects |-> Some(objects), objects_items |-> with_items(objects)]
  /\ lockHolder' = "free"
  /\ loader_pc' = "done"

\* the loader task takes the lock; with the slot empty it enters parse_all
LoaderLock ==
  /\ Running
  /\ loader_pc = "lock"
  /\ lockHolder = "free"
  /\ IF slot.objects = None
       THEN /\ lockHolder' = "loader"
            /\ loader_pc' = "parse"
            /\ EnterParseAll
            /\ UNCHANGED slot
       ELSE /\ LoaderStore(Unwrap(slot.objects))
            /\ UNCHANGED <<paVars, fetchLog, parseAllCalls, callStart>>
  /\ UNCHANGED <<fg_pc, app, relay_pc, chan, txAlive, rxClosed, detail, sent,
                 handoffs, inflight, requested>>
  /\ UNCHANGED <<cacheFile, fixedVars, stored, cacheOpens, cacheCreates,
                 history, calls>>

\* what the loader task does once a step of parse_all is taken: it goes on, or
\* stores the result, or unwinds from the panic, which drops the guard
LoaderAfter ==
  IF pa_pc' = "returned" THEN LoaderStore(pa_ret')
  ELSE IF pa_pc' = "panicked"
    THEN lockHolder' = "free" /\ loader_pc' = "panicked" /\ UNCHANGED slot
  ELSE UNCHANGED <<slot, lockHolder, loader_pc>>

\* the loader task inside lock.objects = Some(parse_all().await)
LoaderStep ==
  /\ Running
  /\ loader_pc = "parse"
  /\ \/ PA_Decache
     \/ PA_Fetch
     \/ PA_Cache
  /\ LoaderAfter
  /\ UNCHANGED <<fg_pc, app, relay_pc, chan, txAlive, rxClosed, detail, sent,
                 handoffs, inflight, requested>>
  /\ UNCHANGED fixedVars

\* run_app creates the channel and spawns the relay task
RunAppSpawnRelay ==
  /\ fg_pc = "setup"
  /\ relay_pc' = "lock"
  /\ txAlive' = TRUE
  /\ fg_pc' = "recv"
  /\ UNCHANGED <<app, loader_pc, lockHolder, slot, chan, rxClosed, detail,
                 sent, handoffs, inflight, requested>>
  /\ UNCHANGED <<cacheFile, fixedVars, paVars, logVars>>

\* let lock = objects.lock().await
RelayLock ==
  /\ Running
  /\ relay_pc = "lock"
  /\ lockHolder = "free"
  /\ lockHolder' = "relay"
  /\ relay_pc' = "loop"
  /\ UNCHANGED <<fg_pc, app, loader_pc, slot, chan, txAlive, rxClosed, detail,
                 sent, handoffs, inflight, requested>>
  /\ UNCHANGED <<cacheFile, fixedVars, paVars, logVars>>

\* one turn of the relay's loop with lock.objects.is_some(): the clone is
\* sent (the task panics when the channel is closed) and the loop is left
RelaySend ==
  /\ Running
  /\ relay_pc = "loop"
  /\ slot.objects # None
  /\ IF rxClosed
       THEN /\ relay_pc' = "panicked"
            /\ lockHolder' = "free"
            /\ txAlive' = FALSE
            /\ UNCHANGED <<chan, sent>>
       ELSE /\ chan' = Append(chan, slot)
            /\ sent' = sent + 1
            /\ relay_pc' = "sent"
            /\ UNCHANGED <<lockHolder, txAlive>>
  /\ UNCHANGED <<fg_pc, app, loader_pc, slot, rxClosed, detail, handoffs,
                 inflight, requested>>
  /\ UNCHANGED <<cacheFile, fixedVars, paVars, logVars>>

\* the relay task ends: the guard and the sender are dropped
RelayExit ==
  /\ Running
  /\ relay_pc = "sent"
  /\ relay_pc' = "done"
  /\ lockHolder' = "free"
  /\ txAlive' = FALSE
  /\ UNCHANGED <<fg_pc, app, loader_pc, slot, chan, rxClosed, detail, sent,
                 handoffs, inflight, requested>>
  /\ UNCHANGED <<cacheFile, fixedVars, paVars, logVars>>

\* one turn of the relay's loop with lock.objects still None: nothing changes,
\* the task neither yields nor drops the guard
RelaySpin ==
  /\ Running
  /\ relay_pc = "loop"
  /\ slot.objects = None
  /\ UNCHANGED vars

(***************************************************************************)
(* main.rs: run_app's loop.  Each turn draws, awaits rx.recv(), then polls *)
(* for an event and handles a key.                                         *)
(***************************************************************************)
\* what a foreground step leaves alone besides fg_pc and app
FgFrame ==
  /\ UNCHANGED <<loader_pc, relay_pc, lockHolder, slot, txAlive, sent>>
  /\ UNCHANGED <<cacheFile, fixedVars, paVars, logVars>>

\* rx.recv().await gives Some(c)
FgRecvSome ==
  /\ fg_pc = "recv"
  /\ chan # <<>>
  /\ app' = [app EXCEPT !.is_load = FALSE,
                        !.objects = Head(chan).objects,
                        !.objects_items = Head(chan).objects_items]
  /\ chan' = Tail(chan)
  /\ handoffs' = handoffs + 1
  /\ fg_pc' = "poll"
  /\ UNCHANGED <<rxClosed, detail, inflight, requested>>
  /\ FgFrame

\* variant: recv does not wait for a message while the sender lives
FgRecvNone_NoWait ==
  /\ fg_pc = "recv"
  /\ chan = <<>>
  /\ rxClosed' = TRUE
  /\ fg_pc' = "poll"
  /\ UNCHANGED <<app, chan, handoffs, detail, inflight, requested>>
  /\ FgFrame

\* rx.recv().await gives None: the channel is empty and closed or without
\* a sender; rx.close() follows
FgRecvNone ==
  /\ fg_pc = "recv"
  /\ chan = <<>>
  /\ ~txAlive \/ rxClosed
  /\ rxClosed' = TRUE
  /\ fg_pc' = "poll"
  /\ UNCHANGED <<app, chan, handoffs, detail, inflight, requested>>
  /\ FgFrame

\* variant: keys are dispatched while a detail request is pending
KeyDispatch_WhilePending == fg_pc \in {"poll", "detail"}

\* a key event is taken from the terminal and dispatched
KeyDispatch == fg_pc = "poll"

\* the handler of a key leaves the application state a; the loop turns
Handled(a) ==
  /\ app' = a
  /\ fg_pc' = "recv"
  /\ UNCHANGED <<chan, rxClosed, handoffs, detail, inflight, requested>>
  /\ FgFrame

\* the handler panics
HandlerPanics == Crash /\ UNCHANGED <<cacheFile, fixedVars, paVars, logVars>>

\* event::poll gives false, or the event read is no key event
NoKey ==
  /\ fg_pc = "poll"
  /\ Handled(app)

\* the window switch of Right | Left
OtherWindow(w) == IF w = "Explorer" THEN "Objects" ELSE "Explorer"

\* variant: the filtered list is also stored as the catalogue
search_Narrowing(a) ==
  IF a.is_load THEN a
  ELSE
    LET matches(o) ==
          \/ Contains(ToLowercase(get_document_name(o)),
                      ToLowercase(a.search))
          \/ Contains(ToLowercase(get_name(o)), ToLowercase(a.search))
    IN  [a EXCEPT !.objects_items =
                    with_items(SelectSeq(Unwrap(a.objects), matches)),
                  !.objects = Some(SelectSeq(Unwrap(a.objects), matches))]

\* search(app)
search(a) ==
  IF a.is_load THEN a
  ELSE
    LET matches(o) ==
          \/ Contains(ToLowercase(get_document_name(o)),
                      ToLowercase(a.search))
          \/ Contains(ToLowercase(get_name(o)), ToLowercase(a.search))
    IN  [a EXCEPT !.objects_items =
           with_items(IF Len(a.search) > 0
                        THEN SelectSeq(Unwrap(a.objects), matches)
                        ELSE Unwrap(a.objects))]

\* String::pop
Pop(str) == IF str = <<>> THEN str ELSE SubSeq(str, 1, Len(str) - 1)

\* the characters typed in the model
KeyChars == {65, 50}

\* Mode::Default, KeyCode::Esc: return Ok(())
DefaultEsc ==
  /\ KeyDispatch
  /\ app.mode = "Default"
  /\ fg_pc' = "exited"
  /\ UNCHANGED <<app, chan, rxClosed, handoffs, detail, inflight, requested>>
  /\ FgFrame

\* Mode::Default, KeyCode::Right | KeyCode::Left
DefaultRightLeft ==
  /\ KeyDispatch
  /\ app.mode = "Default"
  /\ Handled([app EXCEPT !.window = OtherWindow(@)])

\* Mode::Default, KeyCode::Up
DefaultUp ==
  /\ KeyDispatch
  /\ app.mode = "Default"
  /\ IF ~app.is_load /\ app.window = "Objects"
       THEN IF previous_overflows(app.objects_items) /\ overflow_checks
              THEN HandlerPanics
              ELSE /\ Followed(previous(app.objects_items))
                   /\ Handled([app EXCEPT !.objects_items = previous(@)])
       ELSE IF ~app.is_load /\ app.window = "Explorer"
              THEN Handled([app EXCEPT !.scroll =
                              IF @[1] # 0 THEN <<@[1] - 1, @[2]>> ELSE @])
              ELSE Handled(app)

\* Mode::Default, KeyCode::Down
DefaultDown ==
  /\ KeyDispatch
  /\ app.mode = "Default"
  /\ IF ~app.is_load /\ app.window = "Objects"
       THEN IF next_overflows(app.objects_items) /\ overflow_checks
              THEN HandlerPanics
              ELSE /\ Followed(next(app.objects_items))
                   /\ Handled([app EXCEPT !.objects_items = next(@)])
       ELSE IF ~app.is_load /\ app.window = "Explorer"
              THEN /\ app.scroll[1] < MaxScroll
                   /\ Handled([app EXCEPT !.scroll = <<@[1] + 1, @[2]>>])
              ELSE Handled(app)

\* Mode::Default, KeyCode::PageDown
DefaultPageDown ==
  /\ KeyDispatch
  /\ app.mode = "Default"
  /\ Handled(IF ~app.is_load /\ app.window = "Objects"
               THEN [app EXCEPT !.objects_items = select_last(@)]
               ELSE app)

\* Mode::Default, KeyCode::PageUp
DefaultPageUp ==
  /\ KeyDispatch
  /\ app.mode = "Default"
  /\ Handled(IF ~app.is_load /\ app.window = "Objects"
               THEN [app EXCEPT !.objects_items = select_first(@)]
               ELSE app)

\* Mode::Default, KeyCode::Char(c)
DefaultChar ==
  /\ KeyDispatch
  /\ app.mode = "Default"
  /\ Len(app.search) < MaxSearch
  /\ \E c \in KeyChars :
       Handled([app EXCEPT !.mode = "Search",
                           !.objects_items = unselect(@),
                           !.search = Append(@, c)])

\* Mode::Default, KeyCode::Backspace
DefaultBackspace ==
  /\ KeyDispatch
  /\ app.mode = "Default"
  /\ Handled([app EXCEPT !.mode = "Search", !.search = Pop(@)])

\* the request parse_object_page(id) sends
DetailUrl(id) == [base |-> URL_SCP_OBJECT_PAGE, rest |-> id]

\* Mode::Default, KeyCode::Enter, up to the await of parse_object_page
DefaultEnter ==
  /\ KeyDispatch
  /\ app.mode = "Default"
  /\ IF app.window = "Objects"
       THEN LET u == VecGet(app.objects_items.items,
                            get_selected_id(app.objects_items))
            IN  IF u # None
                  THEN /\ app' = [app EXCEPT !.scroll = <<0, 0>>]
                       /\ fg_pc' = "detail"
                       /\ detail' = Some(get_id(Unwrap(u)))
                       /\ requested' = Some(DetailUrl(get_id(Unwrap(u))))
                       /\ inflight' = inflight + 1
                       /\ UNCHANGED <<chan, rxClosed, handoffs>>
                       /\ FgFrame
                  ELSE Handled([app EXCEPT !.scroll = <<0, 0>>])
       ELSE Handled(app)

\* the article the site serves for an identifier: its `source` field
SourceOf(id) == <<35>> \o id

\* "None"
NoneText == <<78, 111, 110, 101>>

\* StatusCode::OK
StatusCode_OK == 200

\* what a detail request can meet: reqwest::get fails (ok is FALSE), or a
\* response arrives with a status and a body that cannot be read to its end,
\* that reads and does not decode as an ApiObjectResult, or that decodes
Statuses == {200, 201, 204, 304, 404, 500}

Bodies == {"unreadable", "undecodable", "decoded"}

Responses ==
  {[ok |-> FALSE, status |-> 0, body |-> "unreadable"]}
    \cup {[ok |-> TRUE, status |-> st, body |-> b] : st \in Statuses, b \in Bodies}

\* parse_object_page(id), met being what the request meets:
\* [path, panic, val], path the URL requested, val an Option<ApiObjectResult>
parse_object_page(id, met) ==
  IF ~met.ok
    THEN [path |-> DetailUrl(id), panic |-> FALSE, val |-> None]
  ELSE IF met.status = StatusCode_OK
    THEN IF met.body = "decoded"
           THEN [path |-> DetailUrl(id), panic |-> FALSE,
                 val |-> Some([source |-> SourceOf(id)])]
           ELSE [path |-> DetailUrl(id), panic |-> TRUE, val |-> None]
  ELSE [path |-> DetailUrl(id), panic |-> FALSE, val |-> None]

\* the rest of the Enter handler once parse_object_page gave r
Explored(r) ==
  IF r.panic
    THEN /\ fg_pc' = "crashed"
         /\ UNCHANGED app
    ELSE /\ fg_pc' = "recv"
         /\ app' = [app EXCEPT
                      !.explorer = IF r.val = None THEN Some(NoneText)
                                   ELSE Some(Unwrap(r.val).source),
                      !.window = "Explorer"]

\* Mode::Default, KeyCode::Enter, from the await of parse_object_page on
DetailComplete ==
  /\ fg_pc = "detail"
  /\ \E met \in Responses :
       Explored(parse_object_page(Unwrap(detail), met))
  /\ detail' = None
  /\ inflight' = inflight - 1
  /\ UNCHANGED <<chan, rxClosed, handoffs, requested>>
  /\ FgFrame

\* Mode::Default, any other key
DefaultOther ==
  /\ KeyDispatch
  /\ app.mode = "Default"
  /\ Handled(app)

\* variant: Esc also drops the query
SearchEsc_DropsQuery ==
  /\ KeyDispatch
  /\ app.mode = "Search"
  /\ Handled([app EXCEPT !.mode = "Default", !.search = <<>>])

\* Mode::Search, KeyCode::Esc
SearchEsc ==
  /\ KeyDispatch
  /\ app.mode = "Search"
  /\ Handled([app EXCEPT !.mode = "Default"])

\* Mode::Search, KeyCode::Char(c)
SearchChar ==
  /\ KeyDispatch
  /\ app.mode = "Search"
  /\ Len(app.search) < MaxSearch
  /\ \E c \in KeyChars : Handled(search([app EXCEPT !.search = Append(@, c)]))

\* Mode::Search, KeyCode::Backspace
SearchBackspace ==
  /\ KeyDispatch
  /\ app.mode = "Search"
  /\ Handled(search([app EXCEPT !.search = Pop(@)]))

\* Mode::Search, KeyCode::Enter
SearchEnter ==
  /\ KeyDispatch
  /\ app.mode = "Search"
  /\ Handled(IF app.is_load
               THEN [app EXCEPT !.mode = "Default", !.window = "Objects"]
               ELSE [search([app EXCEPT !.mode = "Default",
                                        !.window = "Objects"])
                       EXCEPT !.objects_items = next(@)])

\* Mode::Search, KeyCode::Right | KeyCode::Left
SearchRightLeft ==
  /\ KeyDispatch
  /\ app.mode = "Search"
  /\ Handled([app EXCEPT !.mode = "Default", !.window = OtherWindow(@)])

\* Mode::Search, KeyCode::Down
SearchDown ==
  /\ KeyDispatch
  /\ app.mode = "Search"
  /\ IF next_overflows(app.objects_items) /\ overflow_checks
       THEN HandlerPanics
       ELSE /\ Followed(next(app.objects_items))
            /\ Handled([app EXCEPT !.mode = "Default", !.window = "Objects",
                                   !.objects_items = next(@)])

\* Mode::Search, any other key
SearchOther ==
  /\ KeyDispatch
  /\ app.mode = "Search"
  /\ Handled(app)

(***************************************************************************)
(* The process.                                                            *)
(***************************************************************************)
Next ==
  \/ MainDebug
  \/ MainSpawnLoader
  \/ LoaderLock
  \/ LoaderStep
  \/ RunAppSpawnRelay
  \/ RelayLock
  \/ RelaySpin
  \/ RelaySend
  \/ RelayExit
  \/ FgRecvSome
  \/ FgRecvNone
  \/ NoKey
  \/ DefaultEsc
  \/ DefaultRightLeft
  \/ DefaultUp
  \/ DefaultDown
  \/ DefaultPageDown
  \/ DefaultPageUp
  \/ DefaultChar
  \/ DefaultBackspace
  \/ DefaultEnter
  \/ DetailComplete
  \/ DefaultOther
  \/ SearchEsc
  \/ SearchChar
  \/ SearchBackspace
  \/ SearchEnter
  \/ SearchRightLeft
  \/ SearchDown
  \/ SearchOther

Spec == Init /\ [][Next]_vars

(***************************************************************************)
(* parse_series called on its own, on a site whose listing URLs all serve  *)
(* one page.  The pages are put together from what precedes an anchor in   *)
(* its paragraph, the anchor's text and what follows the anchor.           *)
(***************************************************************************)
\* longest page served, in paragraphs
MaxParagraphs == 101

\* longest query search is called with on its own
MaxQuery == 2

\* longest list the StatefulList methods are called on on their own
MaxItems == 3

Span(text) == Elem("span", None, <<Txt(text)>>)

Br == Elem("br", None, <<>>)

\* alt attributes: the six file names of the match, and others
AltTokens ==
  {"na.png", "safe.png", "euclid.png", "keter.png", "thaumiel.png",
   "nonstandard.png", "weird.png", "Safe.png", "safe", ""}

\* the nodes before an anchor: an image and a blank (the site's layout), the
\* image without alt, another element, a bold word, one text only, nothing
Befores ==
  {<<Img(t), Txt(<<32>>)>> : t \in AltTokens}
    \cup { <<Elem("img", None, <<>>), Txt(<<32>>)>>,
           <<Br, Txt(<<32>>)>>,
           <<Txt(<<120, 32>>), Elem("b", None, <<Txt(<<121>>)>>)>>,
           <<Txt(<<32>>)>>,
           <<>> }

\* "SCP-002", "SCP-8 ", "SCP-1-J"
AnchorTexts ==
  { <<83, 67, 80, 45, 48, 48, 50>>,
    <<83, 67, 80, 45, 56, 32>>,
    <<83, 67, 80, 45, 49, 45, 74>> }

\* "— «Живая» комната"
LivingRoom ==
  <<8212, 32, 171, 1046, 1080, 1074, 1072, 1103, 187, 32,
    1082, 1086, 1084, 1085, 1072, 1090, 1072>>

\* the nodes after an anchor
Afters ==
  { <<Txt(LivingRoom)>>,
    <<Txt(<<32, 8212, 32, 65, 98, 32>>)>>,
    <<Txt(<<8212>>)>>,
    <<Txt(<<32, 65, 98>>)>>,
    <<Txt(<<45, 32, 65, 98>>)>>,
    <<Txt(<<32>>), Span(<<32, 98, 32>>)>>,
    <<Txt(<<32, 8212, 32, 65, 98>>), Span(<<98>>)>>,
    <<Txt(<<32, 8212, 32, 65, 98>>), Elem("span", None, <<>>)>>,
    <<Txt(<<32, 8212, 32, 65, 98>>), Elem("span", None, <<Br>>)>>,
    <<Txt(<<32, 8212, 32, 65, 98>>), Br>>,
    <<Span(<<98>>)>>,
    <<Span(<<98>>), Span(<<99>>)>>,
    <<Br>>,
    <<Elem("a", None, <<Txt(<<72, 117, 98>>)>>)>>,
    <<>> }

\* a paragraph with one anchor
Paragraph(before, text, after) == before \o <<Anchor(text)>> \o after

\* paragraphs to build longer pages from: two that hold a record, two whose
\* anchor is followed by no text and no span, one without anchor
Keter002 ==
  Paragraph(<<Img("keter.png"), Txt(<<32>>)>>, <<83, 67, 80, 45, 48, 48, 50>>,
            <<Txt(<<32, 8212, 32, 65, 98>>)>>)

Safe003 ==
  Paragraph(<<Img("safe.png"), Txt(<<32>>)>>, <<83, 67, 80, 45, 48, 48, 51>>,
            <<Txt(<<32>>), Span(<<98>>)>>)

FollowedByBr ==
  Paragraph(<<Img("na.png"), Txt(<<32>>)>>, <<83, 67, 80, 45, 52>>, <<Br>>)

FollowedByNothing ==
  Paragraph(<<Img("na.png"), Txt(<<32>>)>>, <<83, 67, 80, 45, 53>>, <<>>)

Parts == {Keter002, Safe003, FollowedByBr, FollowedByNothing, <<Txt(<<120>>)>>}

\* a page of n paragraphs, the first and the last given, the others empty
LongPage(n, first, last) ==
  [k \in 1..n |-> IF k = 1 THEN first ELSE IF k = n THEN last ELSE <<>>]

SeriesPages ==
  {<<Paragraph(b, a, f)>> : b \in Befores, a \in AnchorTexts, f \in Afters}
    \cup {<<p, q>> : p \in Parts, q \in Parts}
    \cup {<<p \o <<Br>> \o q>> : p \in Parts, q \in Parts}
    \cup {LongPage(n, p, q) : n \in {3, MaxParagraphs - 1, MaxParagraphs},
                              p \in {Keter002, <<>>}, q \in {Keter002, Safe003}}
    \cup {<<>>}

\* parse_series(url) on its own
CallParseSeries ==
  /\ \E url \in {SeriesUrl(1), SeriesUrl(2)}, answered \in BOOLEAN :
       /\ given' = [fn |-> "parse_series", url |-> url, answered |-> answered]
       /\ got' = parse_series(url, answered)
  /\ UNCHANGED <<cacheFile, envVars, paVars, procVars, logVars>>

\* the site serving `page` at every listing URL
Serving(page) == [u \in SeriesUrls |-> page]

InitSeries ==
  /\ cacheFile = NoFile
  /\ stored = None
  /\ site \in {Serving(page) : page \in SeriesPages}
  /\ args = <<>>
  /\ overflow_checks = FALSE
  /\ InitState

NextSeries ==
  \/ CallParseSeries

SpecSeries == InitSeries /\ [][NextSeries]_vars

\* the page parse_series was called on, the request having been answered
Parsed == given # None /\ given.fn = "parse_series" /\ given.answered

ThePage == site[given.url]

\* the page has one paragraph and that paragraph one anchor starting with SCP
OneAnchor ==
  /\ Parsed
  /\ Len(ThePage) = 1
  /\ Cardinality({k \in 1..Len(ThePage[1]) : IsScpAnchor(ThePage[1][k])}) = 1

\* the position of that anchor in its paragraph, and the nodes around it
AnchorAt == CHOOSE k \in 1..Len(ThePage[1]) : IsScpAnchor(ThePage[1][k])

Around(d) == Sibling(ThePage[1], AnchorAt + d)

IsText(o) == o # None /\ Unwrap(o).kind = "text"

IsElement(o) == o # None /\ Unwrap(o).kind = "element"

IsSpan(o) == IsElement(o) /\ Unwrap(o).name = "span"

\* the classification the spec gives an alt attribute, present or absent
ClassTable(alt) ==
  IF alt = Some("na.png") THEN "Neutralized"
  ELSE IF alt = Some("safe.png") THEN "Safe"
  ELSE IF alt = Some("euclid.png") THEN "Euclid"
  ELSE IF alt = Some("keter.png") THEN "Keter"
  ELSE IF alt = Some("thaumiel.png") THEN "Thaumiel"
  ELSE IF alt = Some("nonstandard.png") THEN "NonStandard"
  ELSE "None"

\* C12: for every alt attribute of the element two siblings before the anchor,
\* present or absent, the record gets exactly one classification and the
\* mapping does not fail: na.png gives Neutralized, safe.png Safe, euclid.png
\* Euclid, keter.png Keter, thaumiel.png Thaumiel, nonstandard.png NonStandard,
\* every other attribute and the absent one None.
C12_ClassTotal ==
  OneAnchor /\ IsElement(Around(-2)) /\ IsText(Around(1)) =>
    /\ ~got.panic
    /\ Len(got.objs) = 1
    /\ got.objs[1].class = ClassTable(Unwrap(Around(-2)).alt)
    /\ got.objs[1].class \in
         {"None", "Safe", "Euclid", "Keter", "Thaumiel", "Neutralized",
          "NonStandard"}

\* an image with alt="keter.png" two siblings back gave a Keter record
C12_Witness ==
  /\ OneAnchor
  /\ Around(-2) = Some(Img("keter.png"))
  /\ IsText(Around(1))
  /\ ~got.panic
  /\ Len(got.objs) = 1
  /\ got.objs[1].class = "Keter"

\* a span element wrapping a text
WrapsText(o) ==
  /\ IsSpan(o)
  /\ Unwrap(o).children # <<>>
  /\ Unwrap(o).children[1].kind = "text"

\* a text that starts, blanks aside, with the em-dash
Dashed(o) == IsText(o) /\ StartsWith(Trim(Unwrap(o).text), <<8212>>)

\* such a text without its em-dash, trimmed
AfterDash(o) == Trim(Tail(Trim(Unwrap(o).text)))

\* C13: an anchor gets exactly one name.  When a bare text starting with the
\* em-dash follows the anchor (and no span wraps the name), the name is that
\* text without the em-dash, trimmed; when a span wrapping a text follows the
\* anchor, directly or after the text, the name is the span's text, trimmed,
\* whatever the text says.
C13_NameFallback ==
  OneAnchor /\ IsElement(Around(-2)) =>
    /\ Dashed(Around(1)) /\ ~IsSpan(Around(2)) =>
         /\ ~got.panic
         /\ Len(got.objs) = 1
         /\ got.objs[1].name = AfterDash(Around(1))
    /\ IsText(Around(1)) /\ WrapsText(Around(2)) =>
         /\ ~got.panic
         /\ Len(got.objs) = 1
         /\ got.objs[1].name = Trim(Unwrap(Around(2)).children[1].text)
    /\ WrapsText(Around(1)) =>
         /\ ~got.panic
         /\ Len(got.objs) = 1
         /\ got.objs[1].name = Trim(Unwrap(Around(1)).children[1].text)

\* the span wrapping the name follows the anchor directly and ends the
\* paragraph: parse_series panicked
C13_Witness ==
  /\ OneAnchor
  /\ Around(-2) = Some(Img("safe.png"))
  /\ Around(1) = Some(Span(<<98>>))
  /\ Around(2) = None
  /\ got.panic

\* the second of the tokens the anchor's text has between its dashes, trimmed
SecondToken == Trim(Split(Unwrap(Around(0)).children[1].text, 45)[2])

\* C14: a page of one paragraph holding an image with alt attribute t, one
\* node, an anchor with the text SCP-<id> and a text made of an em-dash and a
\* name gives exactly one record: its classification is the one of t, its
\* identifier the trimmed second dash-separated token of the anchor's text,
\* its name the trimmed text after the em-dash.
C14_EndToEnd ==
  /\ OneAnchor
  /\ Len(ThePage[1]) = 4
  /\ AnchorAt = 3
  /\ IsElement(Around(-2))
  /\ Unwrap(Around(-2)).name = "img"
  /\ Dashed(Around(1))
  => got = [panic |-> FALSE,
            objs |-> << [class |-> ClassTable(Unwrap(Around(-2)).alt),
                         name |-> AfterDash(Around(1)),
                         id |-> SecondToken] >>]

\* <img alt="euclid.png"> <a>SCP-002</a>— «Живая» комната gave the one record
\* Euclid, 002, «Живая» комната
C14_Witness ==
  /\ Parsed
  /\ ThePage = << << Img("euclid.png"), Txt(<<32>>),
                     Anchor(<<83, 67, 80, 45, 48, 48, 50>>),
                     Txt(LivingRoom) >> >>
  /\ got = [panic |-> FALSE,
            objs |-> << [class |-> "Euclid",
                         name |-> <<171, 1046, 1080, 1074, 1072, 1103, 187, 32,
                                    1082, 1086, 1084, 1085, 1072, 1090, 1072>>,
                         id |-> <<48, 48, 50>>] >>]

\* C15: the classification is read from the element two siblings before the
\* anchor; when that element has no alt attribute, when the anchor has fewer
\* than two preceding siblings or when the node two back is no element, the
\* record is still produced, with the classification None, and parse_series
\* does not fail.
C15_ClassLookupNeverFails ==
  OneAnchor /\ IsText(Around(1)) =>
    /\ ~got.panic
    /\ Len(got.objs) = 1
    /\ got.objs[1].class =
         IF IsElement(Around(-2)) THEN ClassTable(Unwrap(Around(-2)).alt)
         ELSE "None"

\* the anchor is the first node of its paragraph and a text follows it:
\* parse_series panicked
C15_Witness ==
  /\ OneAnchor
  /\ AnchorAt = 1
  /\ Dashed(Around(1))
  /\ got.panic

\* the node is neither a text nor a span element, or there is none
Skipped(o) == ~IsText(o) /\ ~IsSpan(o)

\* the positions of the anchors starting with SCP in a paragraph
AnchorsOf(p) == {k \in 1..Len(p) : IsScpAnchor(p[k])}

\* the paragraph has one anchor and its next sibling is no text and no span
SkippedParagraph(p) ==
  /\ Cardinality(AnchorsOf(p)) = 1
  /\ \A k \in AnchorsOf(p) : Skipped(Sibling(p, k + 1))

\* C16: an anchor starting with SCP whose next sibling is neither a text nor a
\* span element, or which has no next sibling, gives no record and no error;
\* the records of the other anchors of its paragraph and of the other
\* paragraphs of the page are those they give without it, in document order.
C16_NonRecordSkipped ==
  /\ OneAnchor /\ Skipped(Around(1)) => got = [panic |-> FALSE, objs |-> <<>>]
  /\ Parsed /\ Len(ThePage) = 2 =>
       \A j \in 1..2 :
         SkippedParagraph(ThePage[j]) /\ ~ParseParagraph(ThePage[3 - j]).panic
           => got = [panic |-> FALSE,
                     objs |-> ParseParagraph(ThePage[3 - j]).objs]
  /\ Parsed /\ Len(ThePage) = 1 /\ Cardinality(AnchorsOf(ThePage[1])) = 2 =>
       \A k1, k2 \in AnchorsOf(ThePage[1]) :
         /\ k1 # k2
         /\ Skipped(Sibling(ThePage[1], k1 + 1))
         /\ ~ParseAnchor(ThePage[1], k2).panic
         => got = [panic |-> FALSE, objs |-> ParseAnchor(ThePage[1], k2).objs]

\* the anchor is the last node of its paragraph: parse_series panicked
C16_Witness ==
  /\ OneAnchor
  /\ Around(-2) = Some(Img("na.png"))
  /\ Around(1) = None
  /\ got.panic

\* C17: when the name is taken from the text directly after the anchor and that
\* text does not start with the em-dash, the record is still produced, with the
\* name NOT FOUND; parse_series does not fail.
C17_NotFoundSentinel ==
  /\ OneAnchor
  /\ IsElement(Around(-2))
  /\ IsText(Around(1))
  /\ ~Dashed(Around(1))
  /\ ~WrapsText(Around(2))
  => got = [panic |-> FALSE,
            objs |-> << [class |-> ClassTable(Unwrap(Around(-2)).alt),
                         name |-> <<78, 79, 84, 32, 70, 79, 85, 78, 68>>,
                         id |-> SecondToken] >>]

\* the text "- Ab", with a hyphen for the em-dash, gave a record named
\* NOT FOUND
C17_Witness ==
  /\ OneAnchor
  /\ Around(-2) = Some(Img("thaumiel.png"))
  /\ Around(1) = Some(Txt(<<45, 32, 65, 98>>))
  /\ ~got.panic
  /\ Len(got.objs) = 1
  /\ got.objs[1].name = <<78, 79, 84, 32, 70, 79, 85, 78, 68>>
  /\ got.objs[1].class = "Thaumiel"

\* C18: parse_series takes the records of every paragraph of the page,
\* however many there are: when no paragraph fails, the call gives the records
\* of the first paragraph, then those of the second, and so on to the last,
\* each paragraph's in the order of its anchors.
C18_EveryParagraph ==
  Parsed /\ (\A k \in 1..Len(ThePage) : ~ParseParagraph(ThePage[k]).panic) =>
    got = [panic |-> FALSE,
           objs |-> Flatten([k \in 1..Len(ThePage) |->
                               ParseParagraph(ThePage[k]).objs])]

\* a page of more than 100 paragraphs, the first and the last holding a
\* record: the call gave the first paragraph's record only
C18_Witness ==
  /\ Parsed
  /\ Len(ThePage) > 100
  /\ ThePage[1] = Keter002
  /\ ThePage[Len(ThePage)] = Safe003
  /\ ~got.panic
  /\ Len(got.objs) = 1
  /\ got.objs[1].id = <<48, 48, 50>>

(***************************************************************************)
(* parse_object_page and search called on their own, on arguments of the   *)
(* caller's choice.                                                        *)
(***************************************************************************)
\* the identifiers asked for
DetailIds == {<<48, 48, 50>>, <<56>>, <<1046>>, <<>>}

\* what a call on its own leaves alone
CallFrame == UNCHANGED <<cacheFile, envVars, paVars, procVars, logVars>>

CallParseObjectPage ==
  /\ \E id \in DetailIds, met \in Responses :
       /\ given' = [fn |-> "parse_object_page", id |-> id, met |-> met]
       /\ got' = parse_object_page(id, met)
  /\ CallFrame

\* the catalogue searched: names in Latin and Cyrillic letters, an empty name,
\* an identifier that occurs twice
SearchCatalogue ==
  << ScpObject("Euclid", <<65, 98>>, <<48, 48, 50>>),
     ScpObject("Safe", <<98>>, <<48, 48, 51>>),
     ScpObject("None", NotFound, <<48, 48, 50>>),
     ScpObject("None", <<>>, <<56>>),
     ScpObject("Keter", <<1046, 1080>>, <<49, 55, 51>>) >>

\* the characters of the queries: A, b, s, 2, -, and the Cyrillic zh
QueryChars == {65, 98, 115, 50, 45, 1078}

Queries == SeqsUpTo(QueryChars, MaxQuery)

\* search(app) on its own: the catalogue loaded or not, any query
CallSearch ==
  /\ \E q \in Queries, objects \in {None, Some(<<>>), Some(SearchCatalogue)} :
       /\ given' = [fn |-> "search",
                    app |-> [app EXCEPT !.is_load = (objects = None),
                                        !.objects = objects,
                                        !.search = q]]
       /\ got' = search([app EXCEPT !.is_load = (objects = None),
                                    !.objects = objects,
                                    !.search = q])
  /\ CallFrame

\* the records get_document_name is called on: every classification, names
\* among them the empty one and one that looks like a document name, and the
\* identifiers of the detail requests
NamedObjects ==
  { ScpObject(ClassificationScp[c], name, id) :
      c \in 1..Len(ClassificationScp),
      name \in {<<>>, <<65, 98>>, <<83, 67, 80, 45, 56>>},
      id \in DetailIds }

\* o.get_document_name() on its own
CallGetDocumentName ==
  /\ \E o \in NamedObjects :
       /\ given' = [fn |-> "get_document_name", object |-> o]
       /\ got' = get_document_name(o)
  /\ CallFrame

\* the lists the methods of StatefulList are called on: as with_items and
\* unselect leave them (nothing highlighted, selected an index of an earlier
\* highlight), or with selected the index highlighted; the index inside the
\* list, or 0 on the empty list (where next and previous put it)
TheLists ==
  { [state |-> st, items |-> SubSeq(SearchCatalogue, 1, n), selected |-> sel] :
      n \in 0..MaxItems, sel \in 0..(MaxItems - 1),
      st \in {None} \cup {Some(i) : i \in 0..(MaxItems - 1)} }

Lists ==
  { l \in TheLists :
      /\ l.selected < Len(l.items) \/ l.selected = 0
      /\ l.state # None => l.state = Some(l.selected) }

\* the methods called: one, or two in a row
ListOps == {"next", "previous", "select_first", "select_last"}

OpSeqs == SeqsUpTo(ListOps, 2) \ {<<>>}

\* l.op()
ListOp(op, l) ==
  CASE op = "next" -> next(l)
    [] op = "previous" -> previous(l)
    [] op = "select_first" -> select_first(l)
    [] op = "select_last" -> select_last(l)

\* l.op() evaluates items.len() - 1 on an empty list
ListOpOverflows(op, l) ==
  \/ op = "next" /\ next_overflows(l)
  \/ op = "previous" /\ previous_overflows(l)

\* the methods of ops called on l in turn: [panic, list]; an overflowing
\* subtraction panics in a build with overflow checks
RECURSIVE Navigate(_, _)
Navigate(ops, l) ==
  IF ops = <<>> THEN [panic |-> FALSE, list |-> l]
  ELSE IF ListOpOverflows(Head(ops), l) /\ overflow_checks
    THEN [panic |-> TRUE, list |-> l]
  ELSE Navigate(Tail(ops), ListOp(Head(ops), l))

\* methods of StatefulList on their own
CallStatefulList ==
  /\ \E l \in Lists, ops \in OpSeqs :
       /\ given' = [fn |-> "StatefulList", list |-> l, ops |-> ops]
       /\ got' = Navigate(ops, l)
  /\ CallFrame

InitCalls ==
  /\ Init
  /\ cacheFile = NoFile
  /\ site = SiteGood
  /\ args = <<>>

NextCalls ==
  \/ CallParseObjectPage
  \/ CallSearch
  \/ CallGetDocumentName
  \/ CallStatefulList

SpecCalls == InitCalls /\ [][NextCalls]_vars

\* a call of fn has been made
Called(fn) == given # None /\ given.fn = fn

\* reqwest's StatusCode::is_success
IsSuccess(status) == status >= 200 /\ status < 300

\* C11: parse_object_page(id) requests the detail base URL followed by id;
\* it returns None whenever the transport fails (before a response, or while
\* the body is read) or the status is no success status, returns Some only for
\* a success status, and a success response whose body does not decode makes
\* the call panic instead of returning None.
C11_DetailContract ==
  Called("parse_object_page") =>
    /\ got.path = [base |-> "https://scpfoundation.net/api/articles/scp-",
                   rest |-> given.id]
    /\ (\/ ~given.met.ok
        \/ ~IsSuccess(given.met.status)
        \/ given.met.body = "unreadable") =>
         ~got.panic /\ got.val = None
    /\ got.val # None => given.met.ok /\ IsSuccess(given.met.status)
    /\ (/\ given.met.ok
        /\ IsSuccess(given.met.status)
        /\ given.met.body = "undecodable") => got.panic

\* a response of status 200 whose body could not be read to its end made the
\* call panic
C11_Witness ==
  /\ Called("parse_object_page")
  /\ given.met = [ok |-> TRUE, status |-> 200, body |-> "unreadable"]
  /\ given.id = <<48, 48, 50>>
  /\ got.panic


(***************************************************************************)
(* Properties of the pipeline (SpecPipeline).                              *)
(***************************************************************************)
\* the entries of `history` left by calls of `op`
EntriesOf(op) == {history[k] : k \in {j \in 1..Len(history) : history[j].op = op}}

\* the last two calls were both calls of `op`
TwoInARow(op) ==
  Len(history) = 2 /\ history[1].op = op /\ history[2].op = op

\* C1: when the cache file is readable and stores a record sequence, parse_all
\* returns exactly that sequence, fetches no listing page and does not write
\* the cache; two such calls in a row return the same sequence, the second
\* without any request.
C1_CacheWins ==
  /\ \A h \in EntriesOf("parse_all") :
       h.known # None =>
         /\ h.tag = "Ok"
         /\ h.val = Unwrap(h.known)
         /\ h.fetched = <<>>
         /\ h.created = 0
         /\ h.after = h.before
  /\ TwoInARow("parse_all") /\ history[1].known # None =>
       /\ history[2].val = history[1].val
       /\ history[2].fetched = <<>>

\* two calls of parse_all in a row found a stored sequence that is not empty
C1_Witness ==
  /\ TwoInARow("parse_all")
  /\ history[1].known = Some(CachedObjects)
  /\ history[1].tag = "Ok"
  /\ history[2].tag = "Ok"
  /\ history[2].val = CachedObjects

\* the URLs of series 1 to 8, written out
ListingUrls ==
  [k \in 1..8 |->
     [base |-> "https://scpfoundation.net/scp-series",
      rest |-> IF k = 1 THEN <<>> ELSE <<45, 48 + k>>]]

\* the records of the listing pages behind `urls`, page after page
RecordsBehind(urls) ==
  Flatten([k \in 1..Len(urls) |-> ParseDocument(site[urls[k]]).objs])

\* C2: without a cache file and with every fetch succeeding, parse_all requests
\* exactly the 8 listing URLs (the base URL, then base-2 to base-8, in this
\* order), writes the cache once and only after the last request, and returns
\* the records of the 8 pages in series order, the sequence it wrote.
C2_MissFetchesAllThenCaches ==
  /\ \A h \in EntriesOf("parse_all") :
       h.before = NoFile =>
         IF h.tag = "Ok"
           THEN /\ [k \in 1..Len(h.fetched) |-> h.fetched[k].url] = ListingUrls
                /\ \A k \in 1..Len(h.fetched) : h.fetched[k].ok
                /\ h.created = 1
                /\ h.val = RecordsBehind(ListingUrls)
                /\ h.after.kind = "file"
                /\ Deserialize(h.after.bytes) = [ok |-> TRUE, val |-> h.val]
           ELSE \E k \in 1..Len(h.fetched) : ~h.fetched[k].ok
  /\ pa_pc \in {"decache", "fetch", "cache"} =>
       /\ cacheCreates = callStart.creates
       /\ cacheFile = callStart.file
  /\ pa_pc = "cache" => Len(fetchLog) = 8

\* the catalogue of the site whose pages all parse
GoodCatalogue ==
  << ScpObject("Euclid", <<65, 98>>, <<48, 48, 50>>),
     ScpObject("Safe", <<98>>, <<48, 48, 51>>),
     ScpObject("None", <<78, 79, 84, 32, 70, 79, 85, 78, 68>>, <<48, 48, 50>>),
     ScpObject("None", <<>>, <<56>>) >>

\* a call without a cache file returned the catalogue of the 8 pages
C2_Witness ==
  \E h \in EntriesOf("parse_all") :
    /\ h.before = NoFile
    /\ h.tag = "Ok"
    /\ h.val = GoodCatalogue
    /\ Len(h.fetched) = 8
    /\ h.after = RegularFile(Serialize(GoodCatalogue))

\* C3: for every record sequence R (the empty one and ones with repeated
\* identifiers included), cache_objects(R) followed by decache_objects() gives
\* Ok(R), field for field and in order; a later cache_objects replaces the blob,
\* so that decache_objects gives the sequence saved last.
C3_RoundTrip ==
  /\ /\ Len(history) = 2
     /\ history[1].op = "cache_objects"
     /\ history[1].tag = "Ok"
     /\ history[2].op = "decache_objects"
     => history[2].tag = "Ok" /\ history[2].val = history[1].arg
  /\ \A h \in EntriesOf("decache_objects") :
       h.known # None => h.tag = "Ok" /\ h.val = Unwrap(h.known)
  /\ \A h \in EntriesOf("cache_objects") :
       h.tag = "Ok" => h.after = RegularFile(Serialize(h.arg))

\* a sequence holding the same record twice was saved over an earlier blob and
\* loaded back
C3_Witness ==
  /\ Len(history) = 2
  /\ history[1].op = "cache_objects"
  /\ history[1].tag = "Ok"
  /\ history[1].before.kind = "file"
  /\ history[1].before # history[1].after
  /\ Len(history[1].arg) = 2
  /\ history[1].arg[1] = history[1].arg[2]
  /\ history[1].arg[1].name # history[1].arg[1].id
  /\ history[2].op = "decache_objects"
  /\ history[2].val = history[1].arg

\* C4: if one of the series requests of parse_all fails, the call fails and
\* the cache file is neither created nor changed: nothing of the series already
\* fetched is stored, and the next call misses the cache again.
C4_NoPartialCache ==
  /\ \A h \in EntriesOf("parse_all") :
       (\E k \in 1..Len(h.fetched) : ~h.fetched[k].ok) =>
         /\ h.tag = "Panic"
         /\ h.created = 0
         /\ h.after = h.before
         /\ h.after.kind # "file"
  /\ /\ TwoInARow("parse_all")
     /\ \E k \in 1..Len(history[1].fetched) : ~history[1].fetched[k].ok
     => history[2].fetched # <<>>

\* a request failed after records of earlier series had been fetched, and the
\* next call fetched again
C4_Witness ==
  /\ TwoInARow("parse_all")
  /\ Len(history[1].fetched) = 4
  /\ ~history[1].fetched[4].ok
  /\ history[1].before = NoFile
  /\ history[2].fetched # <<>>

\* C5: decache_objects gives the cache-miss error exactly when the file cannot
\* be opened; a file that opens and does not decode is no miss: the call
\* panics, and parse_all then fetches nothing and does not write the cache.
C5_MissIffNotOpened ==
  /\ \A h \in EntriesOf("decache_objects") :
       /\ h.tag = "Err" <=> h.before.kind \in {"absent", "locked"}
       /\ h.before.kind = "file" /\ h.before.bytes \in CorruptBlobs =>
            h.tag = "Panic"
  /\ \A h \in EntriesOf("parse_all") :
       h.before.kind = "file" /\ h.before.bytes \in CorruptBlobs =>
         /\ h.tag = "Panic"
         /\ h.fetched = <<>>
         /\ h.created = 0
         /\ h.after = h.before

\* parse_all met a blob that does not decode, and decache_objects an absent file
C5_Witness ==
  /\ Len(history) = 2
  /\ \E h \in EntriesOf("parse_all") :
       h.before.kind = "file" /\ h.before.bytes \in CorruptBlobs
  /\ \E h \in EntriesOf("decache_objects") : h.tag = "Panic"

(***************************************************************************)
(* Properties of the process (Spec).                                       *)
(***************************************************************************)
\* the foreground awaits the first message of the channel
AwaitsHandoff == fg_pc = "recv" /\ app.is_load

\* C6: in every interleaving of the loader task and the relay task the
\* foreground is not left blocked on the handoff: while it awaits the catalogue
\* and the load has not failed, some task can still take a step that changes
\* the state (the load goes on, the catalogue is sent or received).
C6_HandoffNeverStuck ==
  AwaitsHandoff /\ loader_pc # "panicked" => ENABLED <<Next>>_vars

\* the relay task took the lock before the loader task did: it loops on the
\* empty slot with the guard held, the loader awaits the lock, the foreground
\* awaits the message
C6_Witness ==
  /\ AwaitsHandoff
  /\ relay_pc = "loop"
  /\ lockHolder = "relay"
  /\ loader_pc = "lock"
  /\ slot.objects = None
  /\ parseAllCalls = 0
  /\ ~ENABLED <<Next>>_vars

\* C7: the relay task sends at most one message and the foreground receives
\* the catalogue at most once; once is_load is false it stays false and
\* app.objects never changes again, whatever keys and polls follow (a search
\* replaces objects_items only).
C7_SingleHandoff ==
  /\ [](sent <= 1 /\ handoffs <= 1 /\ Len(chan) <= 1)
  /\ [][~app.is_load => ~app.is_load' /\ app.objects' = app.objects]_vars

\* after the handoff a search has narrowed the displayed list, the catalogue
\* being what parse_all returned
C7_Witness ==
  /\ sent = 1
  /\ handoffs = 1
  /\ ~app.is_load
  /\ app.search # <<>>
  /\ app.objects = Some(pa_ret)
  /\ Len(app.objects_items.items) < Len(pa_ret)
  /\ app.objects_items.items # <<>>

\* C8: if the load fails inside parse_all (a listing request fails, the cache
\* blob does not decode), the foreground does not stay blocked on the handoff
\* with is_load = true for ever: while it awaits the message after the failure,
\* a step that changes the state (the message sent, the wait ended, an error
\* shown) remains possible.
C8_FailureSurfaces ==
  loader_pc = "panicked" /\ AwaitsHandoff => ENABLED <<Next>>_vars

\* parse_all panicked in the loader task; the relay task loops on the slot,
\* which stays empty, and the foreground awaits the message
C8_Witness ==
  /\ loader_pc = "panicked"
  /\ pa_pc = "panicked"
  /\ relay_pc = "loop"
  /\ slot.objects = None
  /\ AwaitsHandoff
  /\ ~ENABLED <<Next>>_vars

\* C9: in a run of the process parse_all is entered at most once, so the cache
\* file is opened for reading at most once and created at most once, whatever
\* keys, searches and detail requests follow.
C9_LoadOnce ==
  /\ parseAllCalls <= 1
  /\ cacheOpens <= 1
  /\ cacheCreates <= 1
  /\ cacheOpens <= parseAllCalls
  /\ cacheCreates <= cacheOpens

\* the cache was missed and written, and a search and a detail request
\* followed
C9_Witness ==
  /\ parseAllCalls = 1
  /\ cacheOpens = 1
  /\ cacheCreates = 1
  /\ app.search # <<>>
  /\ app.explorer # None
  /\ fg_pc = "poll"

\* what the explorer pane may hold once the request for `url` has ended
ResultsOf(url) == {Some(NoneText), Some(SourceOf(url.rest))}

\* C10: at most one detail request is in flight, and one is in flight exactly
\* while the Enter handler awaits it; until it ends no key is handled (the
\* application state and the request stay as they are), and when it ends the
\* explorer pane holds the result of the request made last.
C10_DetailRunsToCompletion ==
  /\ [](/\ inflight <= 1
        /\ (fg_pc = "detail") <=> (inflight = 1)
        /\ (fg_pc = "detail") <=> (detail # None)
        /\ requested # None /\ Running /\ fg_pc # "detail" =>
             app.explorer \in ResultsOf(Unwrap(requested)))
  /\ [][fg_pc = "detail" =>
          \/ fg_pc' = "detail" /\ app' = app /\ detail' = detail
          \/ fg_pc' = "crashed" /\ app' = app
          \/ /\ fg_pc' = "recv"
             /\ inflight' = 0
             /\ requested' = requested
             /\ app'.explorer \in ResultsOf(Unwrap(requested))
             /\ app' = [app EXCEPT !.explorer = app'.explorer,
                                   !.window = "Explorer"]]_vars

\* the article of the second record of the list was requested after a move
\* down the list, and the pane holds it
C10_Witness ==
  /\ fg_pc = "recv"
  /\ inflight = 0
  /\ requested = Some(DetailUrl(<<48, 48, 51>>))
  /\ app.explorer = Some(SourceOf(<<48, 48, 51>>))
  /\ app.window = "Explorer"

\* two characters are the same letter, case aside
SameLetter(c, d) == LowerChar(c) = LowerChar(d)

\* the string holds the query somewhere, case aside
Holds(str, q) ==
  \E k \in 0..(Len(str) - Len(q)) :
    \A i \in 1..Len(q) : SameLetter(str[k + i], q[i])

\* the record's document name ("SCP-" and its identifier) or its display name
\* holds the query
Matches(o, q) == Holds(<<83, 67, 80, 45>> \o o.id, q) \/ Holds(o.name, q)

\* the positions of the catalogue's records that match, in ascending order
RECURSIVE Matching(_, _, _)
Matching(objects, q, k) ==
  IF k > Len(objects) THEN <<>>
  ELSE (IF Matches(objects[k], q) THEN <<objects[k]>> ELSE <<>>)
         \o Matching(objects, q, k + 1)

\* C19: search() sets the displayed list to exactly the catalogue's records
\* whose document name or display name holds the query, case aside, in
\* catalogue order; with the empty query the list is the whole catalogue.
\* Nothing else of the application state changes.
C19_SearchFilters ==
  Called("search") /\ ~given.app.is_load =>
    /\ got.objects_items.items =
         Matching(Unwrap(given.app.objects), given.app.search, 1)
    /\ given.app.search = <<>> =>
         got.objects_items.items = Unwrap(given.app.objects)
    /\ got = [given.app EXCEPT !.objects_items = got.objects_items]

\* the query of the small Cyrillic zh found the one record whose name starts
\* with the capital one, and the query s every record by its document name
C19_Witness ==
  /\ Called("search")
  /\ given.app.objects = Some(SearchCatalogue)
  /\ given.app.search = <<1078>>
  /\ got.objects_items.items =
       << [class |-> "Keter", name |-> <<1046, 1080>>, id |-> <<49, 55, 51>>] >>

\* the process was started with the debug argument
DebugRun == \E k \in 1..Len(args) : args[k] = "debug"

\* C20: with the debug argument the process skips interactive mode entirely
\* (no loader task, no relay task, no event loop), performs only the
\* fetch/parse pipeline, and exits right afterwards: when it has exited, the
\* pipeline has run.
C20_DebugRunsPipeline ==
  DebugRun =>
    /\ loader_pc = "unspawned"
    /\ relay_pc = "unspawned"
    /\ fg_pc \in {"main", "exited"}
    /\ fg_pc = "exited" => parseAllCalls >= 1 /\ cacheOpens >= 1

\* the process exited on the debug argument: no task was spawned, and neither
\* the cache file was opened nor a page requested
C20_Witness ==
  /\ DebugRun
  /\ fg_pc = "exited"
  /\ loader_pc = "unspawned"
  /\ relay_pc = "unspawned"
  /\ parseAllCalls = 0
  /\ cacheOpens = 0
  /\ fetchLog = <<>>

\* C21: the document name of a record is the prefix SCP- followed by the
\* record's identifier, whatever its display name and its classification.
C21_DocumentName ==
  Called("get_document_name") =>
    /\ Len(got) = 4 + Len(given.object.id)
    /\ SubSeq(got, 1, 4) = <<83, 67, 80, 45>>
    /\ SubSeq(got, 5, Len(got)) = given.object.id
    /\ \A o \in NamedObjects :
         o.id = given.object.id => get_document_name(o) = got

\* the Keter record named SCP-8 with the identifier 002 has the document name
\* SCP-002
C21_Witness ==
  /\ Called("get_document_name")
  /\ given.object = [class |-> "Keter", name |-> <<83, 67, 80, 45, 56>>,
                     id |-> <<48, 48, 50>>]
  /\ got = <<83, 67, 80, 45, 48, 48, 50>>

\* C22: no sequence of key events takes list navigation outside the list:
\* whenever an item is highlighted its index is below items.len().  next
\* evaluates items.len() - 1 exactly when an item is highlighted, and previous
\* when the item highlighted is the first, so with this no handler evaluates
\* it on an empty list.
C22_IndexInsideList ==
  app.objects_items.state # None =>
    /\ Unwrap(app.objects_items.state) >= 0
    /\ Unwrap(app.objects_items.state) < Len(app.objects_items.items)
    /\ ~Underflows(app.objects_items)

\* a search that matched none of the catalogue's records was ended with Enter:
\* the list is empty and its index 0 is highlighted, so the next Down evaluates
\* 0 - 1
C22_Witness ==
  /\ KeyDispatch
  /\ ~app.is_load
  /\ app.objects = Some(CachedObjects)
  /\ app.search = <<65>>
  /\ app.mode = "Default"
  /\ app.objects_items.items = <<>>
  /\ app.objects_items.state = Some(0)
  /\ next_overflows(app.objects_items)

\* the displayed list is the catalogue filtered by the query of the state
ListFollowsQuery(a) ==
  a.objects_items.items = Matching(Unwrap(a.objects), a.search, 1)

\* C23: after the handoff, whatever keys follow, the list shown in the objects
\* pane is the catalogue filtered by the current search string, the whole
\* catalogue when the string is empty.
C23_ListFollowsQuery == ~app.is_load => ListFollowsQuery(app)

\* a character typed in Default mode: the query is A, which matches no record
\* of the catalogue, and the pane still lists the whole catalogue, nothing
\* being highlighted
C23_Witness ==
  /\ ~app.is_load
  /\ app.mode = "Search"
  /\ app.search = <<65>>
  /\ app.objects = Some(CachedObjects)
  /\ app.objects_items = [state |-> None, items |-> CachedObjects,
                          selected |-> 0]
  /\ Matching(CachedObjects, <<65>>, 1) = <<>>

\* the list highlights the item at index i
Highlighted(l, i) == l.state = Some(i) /\ i >= 0 /\ i < Len(l.items)

\* C24: whenever Enter in the objects pane starts a detail fetch, an item of
\* the list is highlighted, its index is the one get_selected_id returns and
\* its identifier the one fetched; with no item highlighted (after the handoff,
\* a re-filter or unselect) Enter starts no fetch.
C24_FetchesHighlighted ==
  fg_pc = "detail" =>
    /\ Highlighted(app.objects_items, get_selected_id(app.objects_items))
    /\ detail =
         Some(app.objects_items.items[get_selected_id(app.objects_items) + 1].id)

\* Enter as the first key after the handoff: nothing is highlighted and the
\* article of the first record of the list is being fetched
C24_Witness ==
  /\ fg_pc = "detail"
  /\ handoffs = 1
  /\ app.search = <<>>
  /\ app.objects_items.state = None
  /\ app.objects_items.items # <<>>
  /\ detail = Some(app.objects_items.items[1].id)
  /\ requested = Some(DetailUrl(app.objects_items.items[1].id))

\* C25: key events are dispatched only after the handoff: in every state in
\* which a key is handled (dispatched, or its handler awaiting the detail
\* request) is_load is false and app.objects is Some; Search mode never
\* coexists with is_load = true, and whenever search() gets past its is_load
\* test app.objects is Some, so its unwrap does not fail.
C25_KeysAfterHandoff ==
  /\ KeyDispatch \/ fg_pc = "detail" =>
       ~app.is_load /\ app.objects # None /\ handoffs = 1
  /\ app.mode = "Search" => ~app.is_load
  /\ ~app.is_load => app.objects # None

\* a key is dispatched in Search mode after the handoff, the query typed and
\* the catalogue filtered by search()
C25_Witness ==
  /\ KeyDispatch
  /\ app.mode = "Search"
  /\ ~app.is_load
  /\ app.objects = Some(CachedObjects)
  /\ app.search = <<50>>
  /\ app.objects_items.items = <<CachedObjects[2]>>

\* the index highlighted in a list with a highlight
Index(l) == Unwrap(l.state)

\* the methods called were these
Did(ops) == Called("StatefulList") /\ given.ops = ops

\* C26: on a non-empty list with a highlighted item, next moves the highlight
\* forward by one and from the last item to the first, previous back by one and
\* from the first item to the last, and next then previous, or previous then
\* next, leaves the highlight where it was; with no highlight both highlight
\* index 0; after next, previous, select_first and select_last on a non-empty
\* list the field selected equals the highlighted index.  The items stay.
C26_Navigation ==
  Called("StatefulList") =>
    /\ got.list.items = given.list.items
    /\ given.list.items # <<>> /\ given.list.state # None =>
         /\ ~got.panic
         /\ Did(<<"next">>) =>
              got.list.state =
                Some(IF Index(given.list) = Len(given.list.items) - 1 THEN 0
                     ELSE Index(given.list) + 1)
         /\ Did(<<"previous">>) =>
              got.list.state =
                Some(IF Index(given.list) = 0 THEN Len(given.list.items) - 1
                     ELSE Index(given.list) - 1)
         /\ Did(<<"next", "previous">>) \/ Did(<<"previous", "next">>) =>
              got.list.state = given.list.state
    /\ given.list.state = None /\ (Did(<<"next">>) \/ Did(<<"previous">>)) =>
         ~got.panic /\ got.list.state = Some(0)
    /\ given.list.items # <<>> =>
         /\ ~got.panic
         /\ got.list.state = Some(got.list.selected)
         /\ Highlighted(got.list, got.list.selected)
    /\ given.list.items # <<>> /\ Did(<<"select_first">>) =>
         got.list.state = Some(0)
    /\ given.list.items # <<>> /\ Did(<<"select_last">>) =>
         got.list.state = Some(Len(given.list.items) - 1)

\* on a list of three items with the last one highlighted, next went to the
\* first item and previous back to the last
C26_Witness ==
  /\ Did(<<"next", "previous">>)
  /\ Len(given.list.items) = 3
  /\ given.list.state = Some(2)
  /\ got = [panic |-> FALSE,
            list |-> [given.list EXCEPT !.state = Some(2), !.selected = 2]]
  /\ next(given.list).state = Some(0)

\* C27: Esc in Default mode ends the event loop; Esc in Search mode only
\* switches the mode to Default: the loop goes on, and the query, the displayed
\* list and its highlight, the focused window, the explorer text and the scroll
\* offset stay as they were.
C27_Esc ==
  /\ [][DefaultEsc => fg_pc' = "exited" /\ ~Running']_vars
  /\ [][SearchEsc =>
          /\ Running'
          /\ fg_pc' = "recv"
          /\ app'.mode = "Default"
          /\ app'.search = app.search
          /\ app'.objects_items = app.objects_items
          /\ app'.window = app.window
          /\ app'.explorer = app.explorer
          /\ app'.scroll = app.scroll
          /\ app'.objects = app.objects
          /\ app'.is_load = app.is_load]_vars

\* Search mode was left with the query 2 typed, the list filtered by it, the
\* explorer pane focused, holding an article and scrolled by one line: all of
\* it is still there in Default mode
C27_Witness ==
  /\ fg_pc = "recv"
  /\ app.mode = "Default"
  /\ app.search = <<50>>
  /\ app.objects = Some(CachedObjects)
  /\ app.objects_items = [state |-> None, items |-> <<CachedObjects[2]>>,
                          selected |-> 0]
  /\ app.window = "Explorer"
  /\ app.explorer # None
  /\ app.scroll = <<1, 0>>

=============================================================================
